---- MODULE Spec2Model ----
(***************************************************************************)
(* Arknights cost-bar ruler: the analysis worker of main.py, its three     *)
(* queues, the overlay's queue poller, the API broadcast poller, the       *)
(* calibration store and the modelling half of calibrate().                *)
(*                                                                         *)
(* Conventions.  Python None for a logical frame is NoReading (-1), the    *)
(* same sentinel main.py uses for previous_logical_frame.  A file name     *)
(* "<basename>_<frames>f_<W>x<H>.json" is the record                       *)
(* [base |-> tokens of basename split on "_", frames |-> frame counts];    *)
(* the resolution is fixed and left out.  No file (None) is NoFile.        *)
(* Times are whole seconds.                                                *)
(***************************************************************************)
EXTENDS Integers, Sequences, FiniteSets, TLC

\* ---------------------------------------------------------------- bounds
MaxNow == 4          \* the clock stops advancing here
MaxCmds == 1         \* commands the GUI may have pending
MaxElapsed == 12     \* cap on timer_offset_frames + cycle_base_frames
MaxFiles == 2        \* cap on the number of calibration files
MaxProgress == 1     \* calibration_progress messages of one calibration run
MaxSent == 2         \* messages logged per API client
MaxWsQueue == 1      \* messages waiting in the timeline tool's ws_queue
MaxNodes == 2        \* nodes of the timeline document
MaxOffset == 8       \* frames the timeline canvas is scrolled away from frame 0
MaxDrags == 1        \* drag gestures the user makes on the timeline canvas
MaxEdits == 2        \* presses of the node editing buttons
MaxWidth == 27       \* widest raw reading of the cost bar, in pixels
MaxHidden == 1       \* hidden glow frames of a calibrated profile
MaxCycles == 3       \* cycle samples one calibration run collects
MaxCounts == 3       \* non-zero widths of a frequency table
MaxFrameCount == 1810 \* the largest frame count formatted
MaxHandles == 3      \* handles the DLL gives out
MaxStreamBytes == 12 \* bytes the Minicap server sends on one connection
MaxPending == 2      \* commands waiting when the user clicks twice in a row
MaxTimers == 2       \* flash loop callbacks pending at once
MaxBarCycles == 4    \* cycles of the cost bar one calibration run watches

\* ------------------------------------------------------ program constants
FRAMES_PER_SECOND == 30
RESET_TIMEOUT == 3
NUM_CYCLES == 6
UI_QUEUE_MAXSIZE == 1
API_QUEUE_MAXSIZE == 1

\* src/timeline_tool/config.py and TimelineApp.__init__
FPS == 30
NODE_COLORS == <<"#ff6347", "#4682b4", "#32cd32", "#ffd700", "#9370db", "#ffa500">>
NODE_FIND_TOLERANCE == 3
NODE_CLICK_TOLERANCE == 15
PIXELS_PER_FRAME == 2
TIMELINE_DRAG_SENSITIVITY == 2
MAGNET_BREAK_THRESHOLD == 30
WEBSOCKET_RECONNECT_DELAY == 5
DEFAULT_LEAD_FRAMES == 60
MAX_LEAD_FRAMES == 300
HAS_WINSOUND == TRUE

NoReading == -1
\* Python None for a raw pixel width
NoWidth == -1
\* TOLERANCE of get_logical_frame_from_calibration
TOLERANCE == 5
NoFile == [base |-> <<>>, frames |-> <<>>]
NoData == <<>>

DisplayModes == {"0_to_n-1", "0_to_n", "1_to_n"}
MINOR_COMMANDS == {"toggle_lap_timer", "set_display_mode"}
\* the exception classes named by the worker's outer except clause
CaughtExceptions == {"ValueError", "FileNotFoundError", "ConnectionError", "RuntimeError"}

\* ------------------------------------------------------------- utilities
ToSet(s) == {s[i] : i \in 1..Len(s)}

Max(a, b) == IF a >= b THEN a ELSE b

RECURSIVE Flatten(_)
Flatten(ss) == IF ss = <<>> THEN <<>> ELSE Head(ss) \o Flatten(Tail(ss))

RECURSIVE SetToSortedSeq(_)
SetToSortedSeq(S) ==
    IF S = {} THEN <<>>
    ELSE LET m == CHOOSE x \in S : \A y \in S : x <= y
         IN <<m>> \o SetToSortedSeq(S \ {m})

\* the format {n:02d}: at least two digits
Pad2(n) == IF n < 10 THEN "0" \o ToString(n) ELSE ToString(n)

FormatSecondsAsMinutes(total_frames) ==
    IF total_frames < 0 THEN "00:00:00"
    ELSE LET frames == total_frames % FRAMES_PER_SECOND
             total_seconds == total_frames \div FRAMES_PER_SECOND
             minutes == total_seconds % 60
             seconds == total_seconds \div 60
         IN Pad2(minutes) \o ":" \o Pad2(seconds) \o ":" \o Pad2(frames)

\* format_time_from_frames: the MM:SS:FF string
format_time_from_frames(total_frames) ==
    IF total_frames < 0 THEN "00:00:00"
    ELSE LET frames == total_frames % FRAMES_PER_SECOND
             total_seconds == total_frames \div FRAMES_PER_SECOND
             minutes == total_seconds \div 60
             seconds == total_seconds % 60
         IN Pad2(minutes) \o ":" \o Pad2(seconds) \o ":" \o Pad2(frames)

\* ------------------------------------------------- calibration: modelling
\* _calculate_jaccard_similarity as the fraction <<numerator, denominator>>
calculate_jaccard_similarity(set1, set2) ==
    IF set1 = {} /\ set2 = {} THEN <<1, 1>>
    ELSE IF set1 = {} \/ set2 = {} THEN <<0, 1>>
    ELSE <<Cardinality(set1 \cap set2), Cardinality(set1 \cup set2)>>

\* a > b for fractions with positive denominators
FracGT(a, b) == a[1] * b[2] > b[1] * a[2]

\* a threshold that a similarity of exactly 0.8 does not pass
SimilarEnoughStrict(sim) == FracGT(sim, <<4, 5>>)

\* SIMILARITY_THRESHOLD = 0.8: similarity >= 4/5
SimilarEnough(sim) == ~ FracGT(<<4, 5>>, sim)

\* the inner for-loop of the clustering: index of the first cluster whose
\* representative has the strictly highest similarity, with that similarity
RECURSIVE BestMatch(_, _, _, _, _)
BestMatch(sample_set, clusters, i, best, maxsim) ==
    IF i > Len(clusters) THEN <<best, maxsim>>
    ELSE LET sim == calculate_jaccard_similarity(sample_set, ToSet(clusters[i][1]))
         IN IF FracGT(sim, maxsim)
            THEN BestMatch(sample_set, clusters, i + 1, i, sim)
            ELSE BestMatch(sample_set, clusters, i + 1, best, maxsim)

RECURSIVE ClusterSamples(_, _)
ClusterSamples(samples, clusters) ==
    IF samples = <<>> THEN clusters
    ELSE LET sample == Head(samples)
             bm == BestMatch(ToSet(sample), clusters, 1, 0, <<-1, 1>>)
         IN IF ToSet(sample) = {} THEN ClusterSamples(Tail(samples), clusters)
            ELSE IF SimilarEnough(bm[2])
            THEN ClusterSamples(Tail(samples),
                     [clusters EXCEPT ![bm[1]] = Append(@, sample)])
            ELSE ClusterSamples(Tail(samples), Append(clusters, <<sample>>))

CountOf(w, merged) == Cardinality({i \in 1..Len(merged) : merged[i] = w})

\* twice statistics.median of a non-empty sequence of integers
Median2(counts) ==
    LET s == SortSeq(counts, LAMBDA a, b : a < b)
        n == Len(s)
    IN IF n % 2 = 1 THEN 2 * s[(n + 1) \div 2]
       ELSE s[n \div 2] + s[n \div 2 + 1]

\* Python round(p / q) for p >= 0, q > 0: ties go to the even integer
RoundHalfEven(p, q) ==
    LET fl == p \div q
        r2 == 2 * (p % q)
    IN IF r2 < q THEN fl
       ELSE IF r2 > q THEN fl + 1
       ELSE IF fl % 2 = 0 THEN fl ELSE fl + 1

\* lines 283-298 on a frequency table: the count of width 0 and the counts
\* of the non-zero widths
HiddenFromCounts(zero_count, counts) ==
    IF counts = <<>> THEN 0
    ELSE LET median2 == Median2(counts)
             \* count < median_count * 5
             filtered == SelectSeq(counts, LAMBDA c : 2 * c < median2 * 5)
         IN IF filtered = <<>> THEN 0
            ELSE LET baseline2 == Median2(filtered)
                 IN IF baseline2 > 0
                    THEN Max(0, RoundHalfEven(2 * zero_count, baseline2) - 1)
                    ELSE 0

\* the hidden-frame inference of one cluster
HiddenFrames(merged) ==
    LET widths == SetToSortedSeq(ToSet(merged))
        count_zero == CountOf(0, merged)
        non_zero_counts == SelectSeq([i \in 1..Len(widths) |->
                               IF widths[i] > 0 THEN CountOf(widths[i], merged) ELSE 0],
                               LAMBDA c : c > 0)
    IN HiddenFromCounts(count_zero, non_zero_counts)

\* one entry of final_profiles
BuildProfile(cluster) ==
    LET merged == Flatten(cluster)
        unique_pixel_widths == SetToSortedSeq(ToSet(merged))
        num_hidden_frames == HiddenFrames(merged)
        non_zero_widths == SelectSeq(unique_pixel_widths, LAMBDA w : w > 0)
    IN [total_frames |-> Len(unique_pixel_widths) + num_hidden_frames,
        pixel_map |-> [w \in ToSet(merged) |->
            IF w = 0 THEN 0
            ELSE (CHOOSE idx \in 1..Len(non_zero_widths) : non_zero_widths[idx] = w)
                 - 1 + 1 + num_hidden_frames]]

\* lines 274-334: a profile for every cluster, then the calibrated data
BuildCalibration(sample_clusters) ==
    LET final_profiles == [i \in 1..Len(sample_clusters) |-> BuildProfile(sample_clusters[i])]
    IN IF final_profiles = <<>>
       THEN [error |-> TRUE, detection_mode |-> "", profiles |-> <<>>]
       ELSE [error |-> FALSE,
             detection_mode |-> IF Len(final_profiles) > 1 THEN "alternating" ELSE "single",
             profiles |-> final_profiles]

\* calibrate() after data collection: "RuntimeError" or the calibrated data
calibrate(cycle_samples) ==
    IF cycle_samples = <<>> THEN [error |-> TRUE, detection_mode |-> "", profiles |-> <<>>]
    ELSE BuildCalibration(ClusterSamples(cycle_samples, <<>>))

\* --------------------------------------------------- calibration: store
\* save_calibration_data: the file name it builds and returns
CalibrationFilename(profiles, basename) == [base |-> basename, frames |-> profiles]

\* get_calibration_basename: the text before the first "_" (every stored
\* name contains "_", so the replace(".json") branch is not reached)
get_calibration_basename(filename) ==
    IF filename.base = <<>> THEN "" ELSE Head(filename.base)

\* save_calibration_data: the store after the write; a failed write is logged
\* and swallowed, and the name is returned all the same
save_calibration_data(store, profiles, basename, time, write_ok) ==
    LET filename == CalibrationFilename(profiles, basename)
    IN IF write_ok
       THEN [f \in DOMAIN store \cup {filename} |->
                IF f = filename
                THEN [ok |-> TRUE, profiles |-> profiles, calibration_time |-> time]
                ELSE store[f]]
       ELSE store

\* remove_calibration_file
FileRemoved(store, filename) == filename \in DOMAIN store
remove_calibration_file(store, filename) ==
    [f \in DOMAIN store \ {filename} |-> store[f]]

\* load_calibration_by_filename: NoData for a missing, unparsable or
\* unrecognised file, else the list of total_frames of its profiles
load_calibration_by_filename(store, filename) ==
    IF filename \in DOMAIN store /\ store[filename].ok
    THEN store[filename].profiles
    ELSE NoData

\* --------------------------------------------- calibration: file contents
\* A JSON object is a record whose field is <<>> where the key is missing and
\* <<value>> where it is there; the value of "profiles" is [is_list, items].
JsonObject(detection_mode, profiles, pixel_map, total_frames, screen_width,
           screen_height, calibration_time) ==
    [detection_mode |-> detection_mode, profiles |-> profiles,
     pixel_map |-> pixel_map, total_frames |-> total_frames,
     screen_width |-> screen_width, screen_height |-> screen_height,
     calibration_time |-> calibration_time]

\* one entry of "profiles"
ProfileObject(total_frames, pixel_map) ==
    [total_frames |-> total_frames, pixel_map |-> pixel_map]

\* json.load: <<>> for a text that is not JSON (JSONDecodeError), else <<object>>
json_load(document) == IF document.json THEN <<document.obj>> ELSE <<>>

\* json.dump
json_dump(data) == [json |-> TRUE, obj |-> data]

\* all('total_frames' in p and 'pixel_map' in p for p in data['profiles'])
ProfilesComplete(items) ==
    \A i \in 1..Len(items) : items[i].total_frames # <<>> /\ items[i].pixel_map # <<>>

\* load_calibration_by_filename, the legacy branch: transformed_data
TransformLegacy(data) ==
    JsonObject(<<"single">>,
               <<[is_list |-> TRUE,
                  items |-> <<ProfileObject(data.total_frames, data.pixel_map)>>]>>,
               <<>>, <<>>, data.screen_width, data.screen_height, data.calibration_time)

\* load_calibration_by_filename on the text of the files: <<>> is None
load_calibration_document(dir, filename) ==
    IF filename \notin DOMAIN dir THEN <<>>
    ELSE IF json_load(dir[filename]) = <<>> THEN <<>>
    ELSE LET data == json_load(dir[filename])[1]
             is_new_format == data.profiles # <<>> /\ data.profiles[1].is_list
             is_old_format == data.pixel_map # <<>>
         IN IF is_new_format
            THEN IF ProfilesComplete(data.profiles[1].items) THEN <<data>> ELSE <<>>
            ELSE IF is_old_format THEN <<TransformLegacy(data)>>
            ELSE <<>>

\* save_calibration_data on the text of the files: the name it builds, with
\* the total_frames of the profiles and the screen size in it
DocumentFilename(data, screen_width, screen_height, basename) ==
    LET profiles == IF data.profiles = <<>> THEN <<>> ELSE data.profiles[1].items
    IN [base |-> basename,
        frames |-> [i \in 1..Len(profiles) |-> profiles[i].total_frames[1]],
        width |-> screen_width, height |-> screen_height]

\* save_calibration_data on the text of the files: the directory afterwards;
\* calibration_time is set first, a failed write is logged and swallowed
save_calibration_document(dir, data, screen_width, screen_height, basename, time, write_ok) ==
    LET stamped == [data EXCEPT !.calibration_time = <<time>>]
        filename == DocumentFilename(data, screen_width, screen_height, basename)
    IN IF write_ok
       THEN [f \in DOMAIN dir \cup {filename} |->
                IF f = filename THEN json_dump(stamped) ELSE dir[f]]
       ELSE dir

\* the files a calibration directory may hold
MapA == <<[key |-> <<0>>, frame |-> 0], [key |-> <<1, 2>>, frame |-> 1],
          [key |-> <<2, 7>>, frame |-> 2]>>
MapB == <<[key |-> <<0>>, frame |-> 0], [key |-> <<8>>, frame |-> 2]>>
ScreenSizes == {<<1920, 1080>>, <<1280, 720>>}
LegacyObject(pixel_map, total_frames, screen_width, screen_height) ==
    JsonObject(<<>>, <<>>, <<pixel_map>>, <<total_frames>>, <<screen_width>>,
               <<screen_height>>, <<>>)
LegacyObjects ==
    {LegacyObject(m, Len(m), s[1], s[2]) : m \in {MapA, MapB}, s \in ScreenSizes}
        \cup {[LegacyObject(MapA, 3, 1920, 1080) EXCEPT !.calibration_time = <<0>>],
              [LegacyObject(MapB, 3, 1280, 720) EXCEPT
                   !.profiles = <<[is_list |-> FALSE, items |-> <<>>]>>]}
ProfileObjects ==
    {ProfileObject(<<3>>, <<MapA>>), ProfileObject(<<3>>, <<MapB>>),
     ProfileObject(<<>>, <<MapA>>), ProfileObject(<<3>>, <<>>)}
NewObject(detection_mode, items, size) ==
    JsonObject(<<detection_mode>>, <<[is_list |-> TRUE, items |-> items]>>,
               <<>>, <<>>, size[1], size[2], <<0>>)
NewObjects ==
    {NewObject(IF Len(items) > 1 THEN "alternating" ELSE "single", items,
               <<<<s[1]>>, <<s[2]>>>>) :
        items \in {<<p>> : p \in ProfileObjects}
                  \cup {<<p, q>> : p \in ProfileObjects, q \in ProfileObjects},
        s \in ScreenSizes}
        \cup {NewObject("single", <<ProfileObject(<<3>>, <<MapA>>)>>, <<<<>>, <<>>>>),
              NewObject("single", <<>>, <<<<1920>>, <<1080>>>>)}
OtherObjects ==
    {JsonObject(<<>>, <<>>, <<>>, <<3>>, <<1920>>, <<1080>>, <<>>),
     JsonObject(<<>>, <<[is_list |-> FALSE, items |-> <<>>]>>, <<>>, <<>>, <<>>, <<>>, <<>>)}
Documents ==
    {json_dump(o) : o \in LegacyObjects \cup NewObjects \cup OtherObjects}
        \cup {[json |-> FALSE, obj |-> JsonObject(<<>>, <<>>, <<>>, <<>>, <<>>, <<>>, <<>>)]}
OldFilename == [base |-> <<"A">>, frames |-> <<3>>, width |-> 1920, height |-> 1080]

\* --------------------------------------------------------------- inputs
FA == [base |-> <<"A">>, frames |-> <<10>>]
FB == [base |-> <<"B">>, frames |-> <<11, 12>>]
\* a calibration directory holding the given files, all written at time 0
StoreOf(filenames) ==
    [f \in filenames |-> [ok |-> TRUE, profiles |-> f.frames, calibration_time |-> 0]]

\* logical frames the capture-loop runs read from a profile of tf frames:
\* below the 10% threshold, below and above the 90% threshold
FrameSamples(tf) == {0, tf - 2, tf - 1} \cap (0..(tf - 1))

TimeSteps == {0, 2}
CalibrationSeconds == {0, 4}

RenameBases == {<<"A">>, <<"N">>}

\* cycle samples a calibration run may collect: NUM_CYCLES spans each
Ramp(n, step) == [i \in 1..n |-> (i - 1) * step]
SamplesShort == [c \in 1..NUM_CYCLES |-> <<0, 90, 180>>]
SamplesFull == [c \in 1..NUM_CYCLES |-> Ramp(11, 18)]
CalibrationRuns == {SamplesShort, SamplesFull}

\* the WebSocket clients that may connect to the API server
Sockets == {"s1", "s2"}

\* ---------------------------------------------------------------- state
VARIABLES
    pc,                      \* worker position: start, outer, inner, exiting, dead
    outbox,                  \* puts the worker has still to complete, in order
    controller,              \* "none" or the backend type of the created controller
    connect_calls,           \* calls of controller.connect()
    disconnect_calls,        \* calls of controller.disconnect()
    error_puts,              \* error messages the worker has handed to the UI queue
    config,                  \* active_calibration_profile, frame_display_mode
    store,                   \* the calibration directory
    now,                     \* time.time()
    frame_display_mode,
    current_profile_filename,
    calibration_data,
    cycle_counter,
    cycle_base_frames,
    timer_offset_frames,
    last_known_total_frames,
    lap_timer_active,
    lap_start_frame,
    previous_logical_frame,
    last_detection_time,
    ui_queue,
    command_queue,
    api_queue,
    ui_state,                \* the overlay's state (last state_change shown)
    active_profile_filename, \* the overlay's idea of the active profile
    menu_files,              \* the profiles listed in the tray menu
    prepared_from,           \* history: the profile that was active when the pending
                             \* prepare_calibration was handled
    connected_clients,       \* api_server: the sockets whose handler is running
    received                 \* history: what each socket has been sent, in order

\* the timeline tool (src/timeline_tool), a program of its own
VARIABLES
    ws_pc,                   \* WebsocketClient._handler: connecting, connected, sleeping
    ws_slept,                \* seconds of the current asyncio.sleep that have passed
    ws_queue,
    tool_mode,               \* TimelineApp.mode: "editing" or "following"
    timeline_data,           \* the nodes, in list order
    current_game_frame,
    timeline_offset,         \* in hundredths of a frame
    magnet_mode,
    current_next_node,       \* <<>> or <<node>>
    sound_alert_enabled,
    visual_alert_enabled,
    alert_lead_frames,
    last_sound_alert_frame,
    is_flashing,
    timeline_drag_data,      \* x, start_x, is_dragging, last_dx
    is_animating,
    animation_target_frame,
    is_inertial_scrolling,
    inertia_velocity,        \* in hundredths of a pixel
    button_down,             \* the mouse button is held on the timeline canvas
    sounded,                 \* history: frames of the nodes the sound was played for
    drags,                   \* history: drag gestures started on the timeline canvas
    edits                    \* history: presses of the node editing buttons

\* the first-run configuration wizard (config_manager.ConfigWindow)
VARIABLES
    wizard_open,             \* the window exists; wait_window returns when it does not
    controller_type,
    mumu_path_entry,
    mumu_instance_entry,
    minicap_id_entry,
    config_data,             \* <<>> for None, else <<record>>
    config_file,             \* config.json: <<>> if absent, else <<record>>
    save_config_arg          \* history: what save_config was last called with

timers == <<cycle_counter, cycle_base_frames, timer_offset_frames,
            last_known_total_frames, lap_timer_active, lap_start_frame,
            previous_logical_frame, last_detection_time>>
profile == <<current_profile_filename, calibration_data, prepared_from>>
resource == <<controller, connect_calls, disconnect_calls, error_puts>>
gui == <<ui_state, active_profile_filename, menu_files>>
worker == <<pc, outbox, resource, config, store, now, frame_display_mode, profile,
            timers, ui_queue, command_queue, api_queue, gui>>
api == <<connected_clients, received>>
ws == <<ws_pc, ws_slept>>
alerts == <<sound_alert_enabled, visual_alert_enabled, alert_lead_frames,
            last_sound_alert_frame, is_flashing, sounded>>
scroll == <<timeline_offset, is_animating, animation_target_frame,
            is_inertial_scrolling, inertia_velocity>>
pointer == <<timeline_drag_data, button_down, drags, edits>>
timeline == <<ws_queue, tool_mode, timeline_data, current_game_frame, magnet_mode,
              current_next_node, alerts, scroll, pointer>>
\* one call of utils.get_logical_frame_from_calibration
VARIABLES
    lookup_pixel_map,        \* calibration_data['pixel_map']: <<key, frame>> pairs in dict order
    current_pixel_width,     \* what _get_raw_filled_pixel_width returned
    returned_frame           \* what the call returned

lookup == <<lookup_pixel_map, current_pixel_width, returned_frame>>
wizard == <<wizard_open, controller_type, mumu_path_entry, mumu_instance_entry,
            minicap_id_entry, config_data, config_file, save_config_arg>>
\* the modelling half of calibrate(), one sample at a time
VARIABLES
    cal_samples,             \* cycle_samples as collected
    cal_done,                \* samples the clustering loop has processed
    cal_clusters,            \* clusters so far
    calibrated               \* <<>> until the profiles are built, then <<calibrated data>>

modelling == <<cal_samples, cal_done, cal_clusters, calibrated>>
\* the frequency table of one cluster and what calibrate() infers from it
VARIABLES
    freq_zero,               \* width_counts.get(0, 0)
    freq_non_zero,           \* the counts of the non-zero widths
    freq_hidden,             \* num_hidden_frames
    freq_total               \* total_frames

table == <<freq_zero, freq_non_zero, freq_hidden, freq_total>>
\* the calibration directory and one load / save / load of a file in it
VARIABLES
    dir_files,               \* CALIBRATION_DIR: file name -> document
    load_step,               \* "stored", "loaded", "saved" or "reloaded"
    first_load,              \* <<>> (None) or <<data>>: the first load
    saved_as,                \* <<>> or <<the name save_calibration_data returned>>
    file_written,            \* the write of save_calibration_data went through
    second_load              \* <<>> (None) or <<data>>: the load of the new file

files == <<dir_files, load_step, first_load, saved_as, file_written, second_load>>
\* the screen of the emulator and the cost-bar region computed for it
VARIABLES
    roi_screen,              \* <<screen_width, screen_height>>
    roi                      \* <<>> or <<(x1, x2, y)>> as find_cost_bar_roi returned it

geometry == <<roi_screen, roi>>
\* a frame count and the two MM:SS:FF texts made from it
VARIABLES
    frame_count,             \* the total frame count to show
    ruler_text,              \* <<>> or <<the text of the ruler>>
    timeline_text            \* <<>> or <<the text of the timeline tool>>

clock == <<frame_count, ruler_text, timeline_text>>
\* a MuMu or LDPlayer controller object and the handles its DLL gave out
VARIABLES
    ctl_kind,                \* "mumu" or "ldplayer"
    ctl_handle,              \* self.handle: 0 (None) or the handle held
    handle_releases,         \* per handle given out: times it was passed to the release call
    with_state,              \* "outside", "inside" a with block, or "left" one just now
    last_capture             \* how the last capture_frame ended

handles == <<ctl_kind, ctl_handle, handle_releases, with_state, last_capture>>
\* a Minicap controller, the byte stream of its socket and one capture_frame call
VARIABLES
    mc_connected,            \* self.connection is set
    mc_sent,                 \* the bytes the server has written after the banner
    mc_closed,               \* the server has closed the stream
    mc_boundaries,           \* the offsets in mc_sent at which a frame ends
    mc_offset,               \* bytes of mc_sent the controller has consumed
    mc_pc,                   \* "idle", or "body" inside the loop of capture_frame
    mc_call_start,           \* mc_offset when the present or last call began
    mc_frame_size,           \* frame_size of the present or last call
    mc_bytes_left,           \* bytes_left
    mc_result                \* "none", "frame", "ConnectionError"

minicap == <<mc_connected, mc_sent, mc_closed, mc_boundaries, mc_offset, mc_pc, mc_call_start, mc_frame_size, mc_bytes_left, mc_result>>
\* the flash loop of the timeline tool: the flag, the pending after() callbacks and the style
VARIABLES
    fl_flashing,             \* self.is_flashing
    fl_timers,               \* ms left of each pending root.after(250, self._flash_loop), oldest first
    fl_background            \* the background the style has: "#282c34" or "#ff6347"

flasher == <<fl_flashing, fl_timers, fl_background>>
\* the delete confirmation dialog of the overlay
VARIABLES
    dialog_file,             \* the file the open dialog asks about, NoFile when none is open
    dialog_answer            \* what Messagebox.yesno returned last: "Yes", "No", "None" (closed), "" before

dialog == <<dialog_file, dialog_answer>>
\* the data collection loop of calibrate, and the bar it watches
VARIABLES
    bar_cycle,               \* the cycle the cost bar of the game is in, counted from 0
    bar_fill,                \* the filled width of the bar in the frame just captured
    collected,               \* cycle_samples; every reading with the bar cycle it was taken in
    current_cycle_data,      \* current_cycle_data, likewise
    previous_cost_state_raw, \* previous_cost_state_raw, NoReading for None
    is_collecting_cycle      \* is_collecting_cycle

collect == <<bar_cycle, bar_fill, collected, current_cycle_data, previous_cost_state_raw, is_collecting_cycle>>
\* everything outside the worker thread and the API server
apart == <<ws, timeline, wizard, lookup, modelling, table, files, geometry, clock, handles, minicap, flasher, dialog, collect>>
\* everything outside the timeline tool
ruler == <<worker, api, wizard, lookup, modelling, table, files, geometry, clock, handles, minicap, flasher, dialog, collect>>
beside_wizard == <<worker, api, ws, timeline, lookup, modelling, table,
        files, geometry, clock, handles, minicap, flasher, dialog, collect>>
beside_lookup == <<worker, api, ws, timeline, wizard, modelling, table,
        files, geometry, clock, handles, minicap, flasher, dialog, collect>>
beside_modelling == <<worker, api, ws, timeline, wizard, lookup, table,
        files, geometry, clock, handles, minicap, flasher, dialog, collect>>
beside_table == <<worker, api, ws, timeline, wizard, lookup, modelling,
        files, geometry, clock, handles, minicap, flasher, dialog, collect>>
beside_files == <<worker, api, ws, timeline, wizard, lookup, modelling,
        table, geometry, clock, handles, minicap, flasher, dialog, collect>>
beside_geometry == <<worker, api, ws, timeline, wizard, lookup, modelling,
        table, files, clock, handles, minicap, flasher, dialog, collect>>
beside_clock == <<worker, api, ws, timeline, wizard, lookup, modelling,
        table, files, geometry, handles, minicap, flasher, dialog, collect>>
beside_handles == <<worker, api, ws, timeline, wizard, lookup, modelling,
        table, files, geometry, clock, minicap, flasher, dialog, collect>>
beside_minicap == <<worker, api, ws, timeline, wizard, lookup, modelling,
        table, files, geometry, clock, handles, flasher, dialog, collect>>
beside_flasher == <<worker, api, ws, timeline, wizard, lookup, modelling,
        table, files, geometry, clock, handles, minicap, dialog, collect>>
beside_dialog == <<worker, api, ws, timeline, wizard, lookup, modelling,
        table, files, geometry, clock, handles, minicap, flasher, collect>>
beside_collect == <<worker, api, ws, timeline, wizard, lookup, modelling,
        table, files, geometry, clock, handles, minicap, flasher, dialog>>
vars == <<worker, api, apart>>

\* ------------------------------------------------------------- messages
UiPut(m) == [q |-> "ui", m |-> m]
CmdPut(c) == [q |-> "cmd", m |-> c]

Cmd(type, filename, new_base, mode) ==
    [type |-> type, filename |-> filename, new_base |-> new_base, mode |-> mode]
UseProfile(f) == Cmd("use_profile", f, <<>>, "")

UiMsg(type, state, mode, total, active) ==
    [type |-> type, state |-> state, display_mode |-> mode,
     display_total |-> total, active_profile |-> active]
StateChange(state, mode) == UiMsg("state_change", state, mode, 0, NoFile)
Running(total, active, mode) == UiMsg("state_change", "running", mode, total, active)
Plain(type) == UiMsg(type, "", "", 0, NoFile)
ModeChanged(mode) == UiMsg("mode_changed", "", mode, 0, NoFile)

\* TimelineApp.__init__; _update_ui_for_mode, called at its end, switches
\* the magnet off since the tool starts in editing mode
TimelineInit ==
    /\ ws_pc = "connecting"
    /\ ws_slept = 0
    /\ ws_queue = <<>>
    /\ tool_mode = "editing"
    /\ timeline_data = <<>>
    /\ current_game_frame = 0
    /\ timeline_offset = 0
    /\ magnet_mode = FALSE
    /\ current_next_node = <<>>
    /\ sound_alert_enabled = TRUE
    /\ visual_alert_enabled = TRUE
    /\ alert_lead_frames = [sound |-> DEFAULT_LEAD_FRAMES, visual |-> DEFAULT_LEAD_FRAMES]
    /\ last_sound_alert_frame = -1
    /\ is_flashing = FALSE
    /\ timeline_drag_data = [x |-> 0, start_x |-> 0, is_dragging |-> FALSE, last_dx |-> 0]
    /\ is_animating = FALSE
    /\ animation_target_frame = 0
    /\ is_inertial_scrolling = FALSE
    /\ inertia_velocity = 0
    /\ button_down = FALSE
    /\ drags = 0
    /\ edits = 0
    /\ sounded = {}

\* calibrate() with nothing collected yet
ModellingInit ==
    /\ cal_samples = <<>>
    /\ cal_done = 0
    /\ cal_clusters = <<>>
    /\ calibrated = <<>>

\* a cluster in which nothing was counted
TableInit ==
    /\ freq_zero = 0
    /\ freq_non_zero = <<>>
    /\ freq_hidden = 0
    /\ freq_total = 0

\* the directory holds one legacy file, nothing loaded yet
FilesInit ==
    /\ dir_files = (OldFilename :> json_dump(LegacyObject(MapA, 3, 1920, 1080)))
    /\ load_step = "stored"
    /\ first_load = <<>>
    /\ saved_as = <<>>
    /\ file_written = FALSE
    /\ second_load = <<>>

\* the reference screen, no region computed yet
GeometryInit ==
    /\ roi_screen = <<1920, 1080>>
    /\ roi = <<>>

\* frame 0, nothing formatted yet
ClockInit ==
    /\ frame_count = 0
    /\ ruler_text = <<>>
    /\ timeline_text = <<>>

\* a new MuMu controller: no handle yet
HandlesInit ==
    /\ ctl_kind = "mumu"
    /\ ctl_handle = 0
    /\ handle_releases = <<>>
    /\ with_state = "outside"
    /\ last_capture = "none"

\* a new Minicap controller, not connected
MinicapInit ==
    /\ mc_connected = FALSE
    /\ mc_sent = <<>>
    /\ mc_closed = FALSE
    /\ mc_boundaries = {0}
    /\ mc_offset = 0
    /\ mc_pc = "idle"
    /\ mc_call_start = 0
    /\ mc_frame_size = 0
    /\ mc_bytes_left = 0
    /\ mc_result = "none"

\* app.py:47 and the theme: not flashing, no callback pending, dark
FlasherInit ==
    /\ fl_flashing = FALSE
    /\ fl_timers = <<>>
    /\ fl_background = "#282c34"

\* no dialog has been shown
DialogInit ==
    /\ dialog_file = NoFile
    /\ dialog_answer = ""

\* calibrate before its loop, lines 180-185; the bar empty in its first cycle
CollectInit ==
    /\ bar_cycle = 0
    /\ bar_fill = 0
    /\ collected = <<>>
    /\ current_cycle_data = <<>>
    /\ previous_cost_state_raw = NoReading
    /\ is_collecting_cycle = FALSE

\* before any call: no map, no reading, nothing returned
LookupInit ==
    /\ lookup_pixel_map = <<>>
    /\ current_pixel_width = NoWidth
    /\ returned_frame = NoReading

\* ConfigWindow.__init__, on a first run (no config.json)
WizardInit ==
    /\ wizard_open = TRUE
    /\ controller_type = "mumu"
    /\ mumu_path_entry = ""
    /\ mumu_instance_entry = "0"
    /\ minicap_id_entry = ""
    /\ config_data = <<>>
    /\ config_file = <<>>
    /\ save_config_arg = <<>>

\* the state when the worker thread starts: the calibration directory holds
\* filenames and config.active_calibration_profile is one of actives
InitWith(filenames, actives) ==
    /\ pc = "start"
    /\ outbox = <<>>
    /\ controller = "none"
    /\ connect_calls = 0
    /\ disconnect_calls = 0
    /\ error_puts = 0
    /\ config \in [active_calibration_profile : actives,
                   frame_display_mode : {"0_to_n-1"}]
    /\ store = StoreOf(filenames)
    /\ now = 0
    /\ frame_display_mode = config.frame_display_mode
    /\ current_profile_filename = NoFile
    /\ calibration_data = NoData
    /\ cycle_counter = 0
    /\ cycle_base_frames = 0
    /\ timer_offset_frames = 0
    /\ last_known_total_frames = 0
    /\ lap_timer_active = FALSE
    /\ lap_start_frame = 0
    /\ previous_logical_frame = -1
    /\ last_detection_time = 0
    /\ ui_queue = <<>>
    /\ command_queue = <<>>
    /\ api_queue = <<>>
    /\ ui_state = "none"
    /\ active_profile_filename = NoFile
    /\ menu_files = filenames
    /\ prepared_from = NoFile
    /\ connected_clients = {}
    /\ received = [c \in Sockets |-> <<>>]
    /\ TimelineInit
    /\ WizardInit
    /\ LookupInit
    /\ CollectInit
    /\ DialogInit
    /\ FlasherInit
    /\ MinicapInit
    /\ HandlesInit
    /\ ClockInit
    /\ GeometryInit
    /\ FilesInit
    /\ TableInit
    /\ ModellingInit

\* ------------------------------------------------------ worker: start-up
Backends == {"mumu", "minicap", "ldplayer", ""}

Outcome(stage, exc) == [stage |-> stage, exc |-> exc]

\* create_capture_controller and the constructors it calls
CreateFailures(type) ==
    CASE type = "mumu" -> {"ValueError", "FileNotFoundError", "RuntimeError"}
      [] type = "minicap" -> {"FileNotFoundError"}
      [] OTHER -> {"ValueError"}

\* what connect() of each backend can raise
ConnectFailures(type) ==
    IF type = "minicap"
    THEN {"CalledProcessError", "ConnectionError", "FileNotFoundError", "RuntimeError"}
    ELSE {"FileNotFoundError", "ConnectionError", "RuntimeError"}

CaptureFailures == {"ConnectionError", "RuntimeError"}

StartOutcomes(type) ==
    {Outcome("create", e) : e \in CreateFailures(type)}
    \cup (IF type \in {"mumu", "minicap"}
          THEN {Outcome("connect", e) : e \in ConnectFailures(type)}
               \cup {Outcome("capture", e) : e \in CaptureFailures}
               \cup {Outcome("ok", "")}
          ELSE {})

\* MinicapController.connect disconnects in its own except clause before it
\* re-raises; the other backends let the exception through
DisconnectsInConnect(type) == IF type = "minicap" THEN 1 ELSE 0

\* an exception reaches the worker's outer try: the error put (if the class
\* is caught) after the puts already made, then the finally clause
Die(exc, pending) ==
    /\ pc' = "exiting"
    /\ outbox' = pending \o (IF exc \in CaughtExceptions
                             THEN <<UiPut(Plain("error"))>> ELSE <<>>)
    /\ error_puts' = error_puts + (IF exc \in CaughtExceptions THEN 1 ELSE 0)

WorkerStart(type, outcome) ==
    /\ pc = "start"
    /\ outcome \in StartOutcomes(type)
    /\ IF outcome.stage = "create"
       THEN /\ Die(outcome.exc, <<>>)
            /\ UNCHANGED <<controller, connect_calls, disconnect_calls>>
       ELSE IF outcome.stage = "connect"
       THEN /\ Die(outcome.exc, <<>>)
            /\ controller' = type
            /\ connect_calls' = connect_calls + 1
            /\ disconnect_calls' = disconnect_calls + DisconnectsInConnect(type)
       ELSE IF outcome.stage = "capture"
       THEN /\ Die(outcome.exc, <<>>)
            /\ controller' = type
            /\ connect_calls' = connect_calls + 1
            /\ UNCHANGED disconnect_calls
       ELSE /\ pc' = "outer"
            /\ controller' = type
            /\ connect_calls' = connect_calls + 1
            /\ LET initial_profile == config.active_calibration_profile
               IN outbox' = <<UiPut(Plain("geometry"))>> \o
                    (IF initial_profile # NoFile /\ initial_profile \in DOMAIN store
                     THEN <<CmdPut(UseProfile(initial_profile))>>
                     ELSE <<UiPut(StateChange("idle", frame_display_mode)),
                            UiPut(Plain("profiles_changed"))>>)
            /\ UNCHANGED <<disconnect_calls, error_puts>>
    /\ UNCHANGED <<config, store, now, frame_display_mode, profile, timers,
                   ui_queue, command_queue, api_queue, gui>>
    /\ UNCHANGED <<api, apart>>

\* the worker completes its next put: ui_queue.put blocks while the queue is
\* full, command_queue.put never blocks
WorkerPut ==
    /\ outbox # <<>>
    /\ IF Head(outbox).q = "ui"
       THEN /\ Len(ui_queue) < UI_QUEUE_MAXSIZE
            /\ ui_queue' = Append(ui_queue, Head(outbox).m)
            /\ UNCHANGED command_queue
       ELSE /\ command_queue' = Append(command_queue, Head(outbox).m)
            /\ UNCHANGED ui_queue
    /\ outbox' = Tail(outbox)
    /\ UNCHANGED <<pc, resource, config, store, now, frame_display_mode, profile,
                   timers, api_queue, gui>>
    /\ UNCHANGED <<api, apart>>

\* the finally clause
WorkerFinally ==
    /\ pc = "exiting"
    /\ outbox = <<>>
    /\ pc' = "dead"
    /\ disconnect_calls' = disconnect_calls + (IF controller # "none" THEN 1 ELSE 0)
    /\ UNCHANGED <<outbox, controller, connect_calls, error_puts, config, store, now,
                   frame_display_mode, profile, timers, ui_queue, command_queue,
                   api_queue, gui>>
    /\ UNCHANGED <<api, apart>>

\* ------------------------------------------------- worker: outer commands
AtOuter(type) ==
    /\ pc = "outer"
    /\ outbox = <<>>
    /\ command_queue # <<>>
    /\ Head(command_queue).type = type

\* lines 90-94: the reset shared by prepare/start calibration and delete
ResetTimers ==
    /\ timer_offset_frames' = 0
    /\ cycle_base_frames' = 0
    /\ cycle_counter' = 0
    /\ previous_logical_frame' = -1
    /\ last_known_total_frames' = 0
    /\ lap_timer_active' = FALSE
    /\ UNCHANGED <<lap_start_frame, last_detection_time>>

HandlePrepareCalibration ==
    /\ AtOuter("prepare_calibration")
    /\ command_queue' = Tail(command_queue)
    /\ ResetTimers
    /\ prepared_from' = current_profile_filename
    /\ current_profile_filename' = NoFile
    /\ calibration_data' = NoData
    /\ outbox' = <<UiPut(StateChange("pre_calibration", frame_display_mode))>>
    /\ UNCHANGED <<pc, resource, config, store, now, frame_display_mode,
                   ui_queue, api_queue, gui>>
    /\ UNCHANGED <<api, apart>>

HandleDeleteProfile ==
    /\ AtOuter("delete_profile")
    /\ command_queue' = Tail(command_queue)
    /\ ResetTimers
    /\ LET filename_to_delete == Head(command_queue).filename
       IN IF FileRemoved(store, filename_to_delete)
          THEN /\ store' = remove_calibration_file(store, filename_to_delete)
               /\ IF filename_to_delete = current_profile_filename
                  THEN /\ current_profile_filename' = NoFile
                       /\ calibration_data' = NoData
                       /\ config' = [config EXCEPT !.active_calibration_profile = NoFile]
                       /\ outbox' = <<UiPut(StateChange("idle", frame_display_mode)),
                                      UiPut(Plain("profiles_changed"))>>
                  ELSE /\ outbox' = <<UiPut(Plain("profiles_changed"))>>
                       /\ UNCHANGED <<current_profile_filename, calibration_data, config>>
          ELSE UNCHANGED <<store, current_profile_filename, calibration_data, config, outbox>>
    /\ prepared_from' = NoFile
    /\ UNCHANGED <<pc, resource, now, frame_display_mode, ui_queue, api_queue, gui>>
    /\ UNCHANGED <<api, apart>>

HandleRenameProfile(write_ok) ==
    /\ AtOuter("rename_profile")
    /\ command_queue' = Tail(command_queue)
    /\ LET old_filename == Head(command_queue).filename
           new_basename == Head(command_queue).new_base
           loaded_data == load_calibration_by_filename(store, old_filename)
           new_filename == CalibrationFilename(loaded_data, new_basename)
       IN IF loaded_data # NoData
          THEN /\ store' = remove_calibration_file(
                               save_calibration_data(store, loaded_data, new_basename,
                                                     now, write_ok),
                               old_filename)
               /\ outbox' = (IF old_filename = current_profile_filename
                             THEN <<CmdPut(UseProfile(new_filename))>> ELSE <<>>)
                            \o <<UiPut(Plain("profiles_changed"))>>
          ELSE UNCHANGED <<store, outbox>>
    /\ UNCHANGED <<pc, resource, config, now, frame_display_mode, profile, timers,
                   ui_queue, api_queue, gui>>
    /\ UNCHANGED <<api, apart>>

\* toggle_lap_timer and set_display_mode match no branch of the outer loop
HandleIgnored ==
    /\ pc = "outer"
    /\ outbox = <<>>
    /\ command_queue # <<>>
    /\ Head(command_queue).type \in MINOR_COMMANDS
    /\ command_queue' = Tail(command_queue)
    /\ UNCHANGED <<pc, outbox, resource, config, store, now, frame_display_mode,
                   profile, timers, ui_queue, api_queue, gui>>
    /\ UNCHANGED <<api, apart>>

\* display_total_text: "/{n-1}" in mode 0_to_n-1, else "/{n}", as the number
DisplayTotal(total_f, mode) == IF mode = "0_to_n-1" THEN total_f - 1 ELSE total_f

\* exc = "" : the run collects cycle_samples; otherwise the first
\* capture_frame of calibrate() raises exc
HandleStartCalibration(exc, cycle_samples, dt, write_ok) ==
    /\ AtOuter("start_calibration")
    /\ command_queue' = Tail(command_queue)
    /\ ResetTimers
    /\ now + dt <= MaxNow
    /\ now' = now + dt
    /\ LET calibrating == <<UiPut(StateChange("calibrating", frame_display_mode))>>
           result == calibrate(cycle_samples)
           failure == IF exc # "" THEN exc
                      ELSE IF result.error THEN "RuntimeError" ELSE ""
           new_cal_data == [i \in 1..Len(result.profiles) |->
                               result.profiles[i].total_frames]
           new_basename == <<"profile", ToString(now')>>
           new_filename == CalibrationFilename(new_cal_data, new_basename)
       IN IF failure = ""
          THEN /\ new_filename \in DOMAIN store \/ Cardinality(DOMAIN store) < MaxFiles
               /\ store' = save_calibration_data(store, new_cal_data, new_basename,
                                                 now', write_ok)
               /\ outbox' = calibrating
                            \o [i \in 1..MaxProgress |-> UiPut(Plain("calibration_progress"))]
                            \o <<UiPut(Plain("profiles_changed")),
                                 CmdPut(UseProfile(new_filename))>>
               /\ UNCHANGED <<pc, error_puts>>
          ELSE IF failure = "RuntimeError"
          THEN /\ outbox' = calibrating \o
                     (IF current_profile_filename # NoFile
                      THEN <<CmdPut(UseProfile(current_profile_filename))>>
                      ELSE <<UiPut(StateChange("idle", frame_display_mode))>>)
               /\ UNCHANGED <<pc, error_puts, store>>
          ELSE /\ Die(failure, calibrating)
               /\ UNCHANGED store
    /\ prepared_from' = NoFile
    /\ UNCHANGED <<controller, connect_calls, disconnect_calls, config,
                   frame_display_mode, current_profile_filename, calibration_data,
                   ui_queue, api_queue, gui>>
    /\ UNCHANGED <<api, apart>>

\* lines 148-151: what the switch folds into timer_offset_frames
FoldedOffset(offset, base) == offset + base

HandleUseProfile ==
    /\ AtOuter("use_profile")
    /\ command_queue' = Tail(command_queue)
    /\ timer_offset_frames' =
          IF calibration_data # NoData
          THEN FoldedOffset(timer_offset_frames, cycle_base_frames)
          ELSE timer_offset_frames
    /\ LET filename == Head(command_queue).filename
           new_data == load_calibration_by_filename(store, filename)
       IN IF new_data # NoData
          THEN /\ calibration_data' = new_data
               /\ current_profile_filename' = filename
               /\ config' = [config EXCEPT !.active_calibration_profile = filename]
               /\ cycle_counter' = 0
               /\ cycle_base_frames' = 0
               /\ previous_logical_frame' = -1
               /\ last_detection_time' = now
               /\ last_known_total_frames' = timer_offset_frames'
               /\ lap_timer_active' = FALSE
               /\ outbox' = <<UiPut(Running(DisplayTotal(new_data[1], frame_display_mode),
                                            filename, frame_display_mode))>>
               /\ pc' = "inner"
               /\ UNCHANGED lap_start_frame
          ELSE /\ current_profile_filename' = NoFile
               /\ calibration_data' = NoData
               /\ config' = [config EXCEPT !.active_calibration_profile = NoFile]
               /\ outbox' = <<UiPut(StateChange("idle", frame_display_mode)),
                              UiPut(Plain("profiles_changed"))>>
               /\ UNCHANGED <<pc, cycle_counter, cycle_base_frames, previous_logical_frame,
                              last_detection_time, last_known_total_frames,
                              lap_timer_active, lap_start_frame>>
    /\ prepared_from' = NoFile
    /\ UNCHANGED <<resource, store, now, frame_display_mode, ui_queue, api_queue, gui>>
    /\ UNCHANGED <<api, apart>>

\* ---------------------------------------------- worker: the capture loop
InLoop ==
    /\ pc = "inner"
    /\ outbox = <<>>

PutBackNothing(queue, cmd) == Tail(queue)

\* lines 208-210: get_nowait took cmd from the head, command_queue.put(cmd)
\* appends it at the end
PutBack(queue, cmd) == Append(Tail(queue), cmd)

\* lines 180-211: a pending command is taken instead of a capture
InnerCommand ==
    /\ InLoop
    /\ command_queue # <<>>
    /\ LET cmd == Head(command_queue)
       IN IF cmd.type = "toggle_lap_timer"
          THEN /\ command_queue' = Tail(command_queue)
               /\ lap_timer_active' = ~ lap_timer_active
               /\ lap_start_frame' = IF lap_timer_active' THEN last_known_total_frames
                                     ELSE lap_start_frame
               /\ UNCHANGED <<pc, outbox, frame_display_mode, config>>
          ELSE IF cmd.type = "set_display_mode"
          THEN /\ command_queue' = Tail(command_queue)
               /\ IF cmd.mode # frame_display_mode
                  THEN /\ frame_display_mode' = cmd.mode
                       /\ config' = [config EXCEPT !.frame_display_mode = cmd.mode]
                       /\ outbox' = <<UiPut(ModeChanged(cmd.mode))>>
                  ELSE UNCHANGED <<frame_display_mode, config, outbox>>
               /\ UNCHANGED <<pc, lap_timer_active, lap_start_frame>>
          ELSE /\ command_queue' = PutBack(command_queue, cmd)
               /\ pc' = "outer"
               /\ UNCHANGED <<outbox, frame_display_mode, config, lap_timer_active,
                              lap_start_frame>>
    /\ UNCHANGED <<resource, store, now, profile, cycle_counter, cycle_base_frames,
                   timer_offset_frames, last_known_total_frames, previous_logical_frame,
                   last_detection_time, ui_queue, api_queue, gui>>
    /\ UNCHANGED <<api, apart>>

\* line 233: the 90% / 10% hysteresis, in tenths
CycleCompleted(previous, logical_frame, total_frames_this_cycle) ==
    /\ previous * 10 > total_frames_this_cycle * 9
    /\ logical_frame * 10 < total_frames_this_cycle

\* line 245: the guard of the reset
ResetNeeded(counter, base, offset) ==
    counter # 0 \/ base # 0 \/ offset # 0

\* a put that makes room by throwing the waiting message away
PutReplacing(queue, maxsize, m) ==
    IF Len(queue) < maxsize THEN Append(queue, m) ELSE <<m>>

\* put_nowait with queue.Full swallowed
put_nowait(queue, maxsize, m) ==
    IF Len(queue) < maxsize THEN Append(queue, m) ELSE queue

\* active_profile['total_frames'] of profiles[cycle_counter % num_profiles]
ActiveTotalFrames ==
    IF calibration_data = NoData THEN 0
    ELSE calibration_data[(cycle_counter % Len(calibration_data)) + 1]

\* lines 216-274: one iteration with no command pending
InnerTick(logical_frame, dt) ==
    /\ InLoop
    /\ command_queue = <<>>
    /\ now + dt <= MaxNow
    /\ now' = now + dt
    /\ LET total_f_active == ActiveTotalFrames
           completed == CycleCompleted(previous_logical_frame, logical_frame, total_f_active)
           timed_out == now' - last_detection_time > RESET_TIMEOUT
           reset == /\ timed_out
                    /\ ResetNeeded(cycle_counter, cycle_base_frames, timer_offset_frames)
       IN /\ logical_frame \in (0..(total_f_active - 1)) \cup {NoReading}
          /\ IF logical_frame # NoReading
             THEN /\ completed =>
                        timer_offset_frames + cycle_base_frames + total_f_active <= MaxElapsed
                  /\ last_detection_time' = now'
                  /\ cycle_base_frames' = cycle_base_frames
                                          + (IF completed THEN total_f_active ELSE 0)
                  /\ cycle_counter' = cycle_counter + (IF completed THEN 1 ELSE 0)
                  /\ last_known_total_frames' =
                        timer_offset_frames + cycle_base_frames' + logical_frame
                  /\ previous_logical_frame' = logical_frame
                  /\ UNCHANGED <<timer_offset_frames, lap_timer_active>>
             ELSE /\ previous_logical_frame' = -1
                  /\ cycle_counter' = IF reset THEN 0 ELSE cycle_counter
                  /\ cycle_base_frames' = IF reset THEN 0 ELSE cycle_base_frames
                  /\ timer_offset_frames' = IF reset THEN 0 ELSE timer_offset_frames
                  /\ last_known_total_frames' = IF reset THEN 0 ELSE last_known_total_frames
                  /\ lap_timer_active' = IF reset THEN FALSE ELSE lap_timer_active
                  /\ UNCHANGED last_detection_time
          /\ ui_queue' = put_nowait(ui_queue, UI_QUEUE_MAXSIZE,
                [type |-> "update",
                 display_frame |-> IF logical_frame # NoReading /\ frame_display_mode = "1_to_n"
                                   THEN logical_frame + 1 ELSE logical_frame,
                 display_total |-> DisplayTotal(total_f_active, frame_display_mode),
                 time_str |-> format_time_from_frames(last_known_total_frames'),
                 lap_active |-> lap_timer_active',
                 lap_frames |-> IF lap_timer_active'
                                THEN last_known_total_frames' - lap_start_frame ELSE 0])
          /\ api_queue' = put_nowait(api_queue, API_QUEUE_MAXSIZE,
                [isRunning |-> logical_frame # NoReading,
                 currentFrame |-> logical_frame,
                 totalFramesInCycle |-> IF logical_frame # NoReading THEN total_f_active ELSE 0,
                 totalElapsedFrames |-> last_known_total_frames',
                 activeProfile |-> get_calibration_basename(current_profile_filename)])
    /\ UNCHANGED <<pc, outbox, resource, config, store, frame_display_mode, profile,
                   lap_start_frame, command_queue, gui>>
    /\ UNCHANGED <<api, apart>>

\* capture_frame raises inside the loop
InnerCaptureFails(exc) ==
    /\ InLoop
    /\ command_queue = <<>>
    /\ exc \in CaptureFailures
    /\ Die(exc, <<>>)
    /\ UNCHANGED <<controller, connect_calls, disconnect_calls, config, store, now,
                   frame_display_mode, profile, timers, ui_queue, command_queue,
                   api_queue, gui>>
    /\ UNCHANGED <<api, apart>>

\* ------------------------------------------------------------ the overlay
\* _process_ui_queue: one poll that finds a message
UiPoll ==
    /\ ui_queue # <<>>
    /\ ui_queue' = Tail(ui_queue)
    /\ LET message == Head(ui_queue)
       IN IF message.type = "state_change"
          THEN /\ ui_state' = message.state
               /\ IF message.state = "running"
                  THEN /\ active_profile_filename' = message.active_profile
                       /\ menu_files' = DOMAIN store
                  ELSE IF message.state \in {"idle", "pre_calibration"}
                  THEN /\ active_profile_filename' = NoFile
                       /\ menu_files' = DOMAIN store
                  ELSE UNCHANGED <<active_profile_filename, menu_files>>
          ELSE IF message.type \in {"profiles_changed", "mode_changed"}
          THEN /\ menu_files' = DOMAIN store
               /\ UNCHANGED <<ui_state, active_profile_filename>>
          ELSE UNCHANGED gui
    /\ UNCHANGED <<pc, outbox, resource, config, store, now, frame_display_mode,
                   profile, timers, command_queue, api_queue>>
    /\ UNCHANGED <<api, apart>>

\* the commands the widgets and the tray menu can send in the current state
UserCommands ==
    {Cmd("prepare_calibration", NoFile, <<>>, "")}
    \cup (IF ui_state = "pre_calibration"
          THEN {Cmd("start_calibration", NoFile, <<>>, "")} ELSE {})
    \cup (IF ui_state = "running"
          THEN {Cmd("toggle_lap_timer", NoFile, <<>>, "")} ELSE {})
    \cup {UseProfile(f) : f \in menu_files \ {active_profile_filename}}
    \cup {Cmd("delete_profile", f, <<>>, "") : f \in menu_files}
    \cup {Cmd("rename_profile", f, b, "") : f \in menu_files, b \in RenameBases}
    \cup {Cmd("set_display_mode", NoFile, <<>>, m) : m \in DisplayModes}

\* master_callback = command_queue.put
UiCommandUpTo(cmd, pending) ==
    /\ cmd \in UserCommands
    /\ Len(command_queue) < pending
    /\ command_queue' = Append(command_queue, cmd)
    /\ UNCHANGED <<pc, outbox, resource, config, store, now, frame_display_mode,
                   profile, timers, ui_queue, api_queue, gui>>
    /\ UNCHANGED <<api, apart>>

UiCommand(cmd) == UiCommandUpTo(cmd, MaxCmds)

\* --------------------------------------------------------- the API server
\* handler: a client connects and its handler adds the socket
HandlerStart(c) ==
    /\ c \notin connected_clients
    /\ connected_clients' = connected_clients \cup {c}
    /\ UNCHANGED <<worker, received, apart>>

\* handler: the socket has closed and the finally clause removes it
HandlerEnd(c) ==
    /\ c \in connected_clients
    /\ connected_clients' = connected_clients \ {c}
    /\ UNCHANGED <<worker, received, apart>>

\* websockets.broadcast(connected_clients, message)
broadcast(clients, message, log) ==
    [c \in Sockets |-> IF c \in clients THEN Append(log[c], message) ELSE log[c]]

\* a broadcast loop that sends to one client only
ApiPollSendsToOne ==
    /\ api_queue # <<>>
    /\ \A c \in connected_clients : Len(received[c]) < MaxSent
    /\ api_queue' = Tail(api_queue)
    /\ received' = IF connected_clients # {}
                   THEN broadcast({CHOOSE c \in connected_clients : TRUE},
                                  Head(api_queue), received)
                   ELSE received
    /\ UNCHANGED <<pc, outbox, resource, config, store, now, frame_display_mode,
                   profile, timers, ui_queue, command_queue, gui>>
    /\ UNCHANGED <<connected_clients, apart>>

\* broadcast_loop: one tick that finds a message (a tick that finds the
\* queue empty changes nothing)
ApiPoll ==
    /\ api_queue # <<>>
    /\ \A c \in connected_clients : Len(received[c]) < MaxSent
    /\ api_queue' = Tail(api_queue)
    /\ received' = IF connected_clients # {}
                   THEN broadcast(connected_clients, Head(api_queue), received)
                   ELSE received
    /\ UNCHANGED <<pc, outbox, resource, config, store, now, frame_display_mode,
                   profile, timers, ui_queue, command_queue, gui>>
    /\ UNCHANGED <<connected_clients, apart>>

\* ---------------------------------------------------------- specification
\* Spec: the life of the worker thread.  Every way start-up, calibration and
\* the capture loop can fail or succeed; the user prepares and starts
\* calibrations and selects profiles; the bar is empty or unreadable.
LifeCommands == {"prepare_calibration", "start_calibration", "use_profile"}

Init == InitWith({}, {NoFile})

Next ==
    \/ \E type \in Backends : \E outcome \in StartOutcomes(type) : WorkerStart(type, outcome)
    \/ WorkerPut
    \/ WorkerFinally
    \/ HandlePrepareCalibration
    \/ \E exc \in {"", "RuntimeError", "ConnectionError"} :
         \E cycle_samples \in CalibrationRuns : \E dt \in CalibrationSeconds :
            HandleStartCalibration(exc, cycle_samples, dt, TRUE)
    \/ HandleUseProfile
    \/ InnerCommand
    \/ InnerTick(NoReading, 0)
    \/ \E exc \in CaptureFailures : InnerCaptureFails(exc)
    \/ UiPoll
    \/ \E cmd \in {c \in UserCommands : c.type \in LifeCommands} : UiCommand(cmd)
    \/ ApiPoll

Spec == Init /\ [][Next]_vars

\* SpecLoop: the capture loop.  Start-up succeeds, the user switches between
\* the stored profiles, and every tick reads a frame sample or nothing while
\* time passes.
NextLoop ==
    \/ WorkerStart("mumu", Outcome("ok", ""))
    \/ WorkerPut
    \/ HandleUseProfile
    \/ InnerCommand
    \/ \E logical_frame \in FrameSamples(ActiveTotalFrames) \cup {NoReading} :
         \E dt \in TimeSteps : InnerTick(logical_frame, dt)
    \/ UiPoll
    \/ \E cmd \in {c \in UserCommands : c.type = "use_profile"} : UiCommand(cmd)
    \/ ApiPoll

InitLoop == InitWith({FA, FB}, {NoFile, FA})

SpecLoop == InitLoop /\ [][NextLoop]_vars

\* SpecStore: the calibration store and the display options.  The user
\* deletes and renames profiles, toggles the lap timer and changes the
\* display mode while a profile runs on an empty bar.
StoreCommands == {"use_profile", "delete_profile", "rename_profile",
                  "toggle_lap_timer", "set_display_mode"}

NextStore ==
    \/ WorkerStart("mumu", Outcome("ok", ""))
    \/ WorkerPut
    \/ HandleDeleteProfile
    \/ \E write_ok \in BOOLEAN : HandleRenameProfile(write_ok)
    \/ HandleUseProfile
    \/ HandleIgnored
    \/ InnerCommand
    \/ InnerTick(0, 0)
    \/ UiPoll
    \/ \E cmd \in {c \in UserCommands : c.type \in StoreCommands} : UiCommand(cmd)
    \/ ApiPoll

InitStore == InitWith({FA}, {FA})

SpecStore == InitStore /\ [][NextStore]_vars

\* ================================================================ claims

\* one iteration of the capture loop, whatever it reads
TickStep ==
    \E logical_frame \in FrameSamples(ActiveTotalFrames) \cup {NoReading} :
        \E dt \in TimeSteps : InnerTick(logical_frame, dt)

\* C1 (as claimed): when the capture loop produces per-tick messages faster
\* than they are drained, the message the consumer dequeues next from each
\* capacity-1 queue is the one the latest tick produced, i.e. it carries the
\* elapsed total of that tick.
C1_QueueHoldsLatest ==
    [][TickStep =>
         /\ (ui_queue' # <<>> /\ Head(ui_queue').type = "update") =>
                Head(ui_queue').time_str = format_time_from_frames(last_known_total_frames')
         /\ api_queue' # <<>> =>
                Head(api_queue').totalElapsedFrames = last_known_total_frames']_vars

\* the last logical frame read since the profile was selected or reset
LastReading == last_known_total_frames - timer_offset_frames - cycle_base_frames

\* a tick whose reading continues an advancing sequence: no reading, a frame
\* not below the last one read, or the wrap from total_frames-1 to 0
AdvancingTick ==
    \/ previous_logical_frame' = NoReading
    \/ previous_logical_frame' >= LastReading
    \/ (LastReading = ActiveTotalFrames - 1 /\ previous_logical_frame' = 0)

\* the tick on which the 3-second timeout is seen
TimeoutTick ==
    /\ previous_logical_frame' = NoReading
    /\ now' - last_detection_time > RESET_TIMEOUT

\* C2 (as claimed): while one profile stays active and the 3-second reset
\* does not fire, over reading sequences that advance and wrap, with
\* no-reading ticks anywhere, last_known_total_frames never decreases from
\* one tick to the next.
C2_ElapsedNeverDecreases ==
    [][(pc = "inner" /\ pc' = "inner" /\ AdvancingTick /\ ~ TimeoutTick)
         => last_known_total_frames' >= last_known_total_frames]_vars

\* C3 (as claimed): for a profile with total_frames >= 10, two consecutive
\* readings total_frames-1 then 0 increment cycle_counter by one and add
\* total_frames to cycle_base_frames, and a tick whose reading does not
\* decrease leaves cycle_counter alone.
C3_WrapCountedOnce ==
    [][(pc = "inner" /\ pc' = "inner" /\ ActiveTotalFrames >= 10) =>
         /\ (previous_logical_frame = ActiveTotalFrames - 1 /\ previous_logical_frame' = 0)
              => /\ cycle_counter' = cycle_counter + 1
                 /\ cycle_base_frames' = cycle_base_frames + ActiveTotalFrames
         /\ (previous_logical_frame' # NoReading
             /\ previous_logical_frame' >= previous_logical_frame)
              => cycle_counter' = cycle_counter]_vars

\* C4 (as claimed): a use_profile handled while a profile is active leaves
\* the elapsed total at or above its value before the switch.
C4_SwitchNeverRewinds ==
    [][(AtOuter("use_profile") /\ calibration_data # NoData /\ pc' = "inner")
         => last_known_total_frames' >= last_known_total_frames]_vars

\* C5 (as claimed): once the loop has seen no reading for more than
\* RESET_TIMEOUT seconds, the cycle counter, the cycle base, the offset and
\* the elapsed total are all 0.
C5_TimeoutZeroesAll ==
    (pc = "inner" /\ now - last_detection_time > RESET_TIMEOUT) =>
        /\ cycle_counter = 0
        /\ cycle_base_frames = 0
        /\ timer_offset_frames = 0
        /\ last_known_total_frames = 0

\* C6 (as claimed): whatever failure ends the worker thread, exactly one
\* error message has been put on the UI queue when the thread has ended.
C6_OneErrorMessage ==
    pc = "dead" => error_puts = 1

\* C7 (as claimed): once a backend exists, connect() has been called exactly
\* once, and disconnect() exactly once, in the final cleanup and not before.
C7_ConnectDisconnectOnce ==
    controller # "none" =>
        /\ connect_calls = 1
        /\ pc # "dead" => disconnect_calls = 0
        /\ pc = "dead" => disconnect_calls = 1

\* the step that handles start_calibration and ends in the RuntimeError
\* fallback: the calibrating put and one more
CalibrationFailedStep ==
    AtOuter("start_calibration") /\ pc' = "outer" /\ Len(outbox') = 2

\* C8 (as claimed): when calibration fails after prepare_calibration was
\* handled with a profile active, the worker enqueues use_profile for that
\* profile instead of reporting idle.
C8_FallbackToPreviousProfile ==
    [][(CalibrationFailedStep /\ prepared_from # NoFile) =>
         /\ outbox'[2].q = "cmd"
         /\ outbox'[2].m.type = "use_profile"
         /\ outbox'[2].m.filename = prepared_from]_vars

\* C9 (as claimed): no calibration with a profile of fewer than 10 frames is
\* ever saved or selected.
C9_NoShortProfile ==
    /\ \A f \in DOMAIN store :
          \A i \in 1..Len(store[f].profiles) : store[f].profiles[i] >= 10
    /\ \A i \in 1..Len(calibration_data) : calibration_data[i] >= 10

\* the step that handles start_calibration and saves a result, and the file
\* name it selects
CalibrationSavedStep ==
    AtOuter("start_calibration") /\ pc' = "outer" /\ Len(outbox') > 2
SavedFilename == outbox'[Len(outbox')].m.filename

\* C10 (as claimed): a successful start_calibration saves under the name of
\* a calibration of the same profile that is less than 60 seconds old if
\* there is one, overwriting it, and under profile_<epoch> otherwise.
C10_QuickRecalibrationOverwrites ==
    [][CalibrationSavedStep =>
         LET recent == {f \in DOMAIN store :
                          /\ f.frames = SavedFilename.frames
                          /\ now' - store[f].calibration_time < 60}
         IN IF recent # {}
            THEN SavedFilename \in recent /\ DOMAIN store' = DOMAIN store
            ELSE SavedFilename.base = <<"profile", ToString(now')>>]_vars

\* the step in which the outer loop takes a command of this type off
\* command_queue and handles it
HandledStep(type) ==
    AtOuter(type) /\ Len(command_queue') = Len(command_queue) - 1

\* the worker starts a put of this message type on the UI queue in this step
PutsUi(type) ==
    \E i \in 1..Len(outbox') : outbox'[i].q = "ui" /\ outbox'[i].m.type = type

\* C11 (as claimed): every delete_profile and every rename_profile the
\* worker handles makes it send profiles_changed to the UI, also when the
\* file to delete is already absent or the file to rename cannot be loaded.
C11_AlwaysProfilesChanged ==
    [][(HandledStep("delete_profile") \/ HandledStep("rename_profile"))
         => PutsUi("profiles_changed")]_vars

\* the worker, in the outer loop or in the capture loop, takes a
\* set_display_mode command off command_queue
DisplayModeTaken ==
    /\ pc \in {"outer", "inner"}
    /\ outbox = <<>>
    /\ command_queue # <<>>
    /\ Head(command_queue).type = "set_display_mode"
    /\ Len(command_queue') = Len(command_queue) - 1

\* C12 (as claimed): a set_display_mode whose mode differs from the current
\* one, in whatever state the worker receives it, sets frame_display_mode and
\* config.frame_display_mode to that mode and sends mode_changed to the UI.
C12_DisplayModeAlwaysApplied ==
    [][(DisplayModeTaken /\ Head(command_queue).mode # frame_display_mode) =>
         /\ frame_display_mode' = Head(command_queue).mode
         /\ config'.frame_display_mode = Head(command_queue).mode
         /\ PutsUi("mode_changed")]_vars

\* SpecApi: the API server next to a worker in its capture loop.  Clients
\* connect and close at any time; the worker produces one message per tick.
NextApi ==
    \/ WorkerStart("mumu", Outcome("ok", ""))
    \/ WorkerPut
    \/ HandleUseProfile
    \/ \E logical_frame \in FrameSamples(ActiveTotalFrames) : InnerTick(logical_frame, 0)
    \/ UiPoll
    \/ ApiPoll
    \/ \E c \in Sockets : HandlerStart(c)
    \/ \E c \in Sockets : HandlerEnd(c)

InitApi == InitWith({FA}, {FA})

SpecApi == InitApi /\ [][NextApi]_vars

\* a step that takes a message off the API queue
ApiTaken == Len(api_queue') < Len(api_queue)

\* C13: a broadcast tick takes at most one message, the oldest; it is
\* appended exactly once to what every connected socket has been sent and to
\* no other socket's, is gone from the queue whether or not anyone is
\* connected, and no other step sends anything.
C13_BroadcastToConnected ==
    [][/\ ApiTaken =>
            /\ api_queue' = Tail(api_queue)
            /\ \A c \in Sockets :
                   received'[c] = IF c \in connected_clients
                                  THEN Append(received[c], Head(api_queue))
                                  ELSE received[c]
       /\ ~ ApiTaken => received' = received]_vars

\* C13 witness: s1 has been sent two messages, s2 was connected for only one
\* of them, and a further message was taken with nobody connected
C13_Witness ==
    /\ Len(received["s1"]) = 2
    /\ Len(received["s2"]) = 1
    /\ connected_clients = {}
    /\ api_queue = <<>>
    /\ last_known_total_frames > 0

\* ====================================================== the timeline tool
Abs(x) == IF x >= 0 THEN x ELSE -x

\* Python's int(a / b) for b > 0: the quotient truncated toward zero
TruncDiv(a, b) == IF a >= 0 THEN a \div b ELSE -((-a) \div b)

\* int(round(offset)) of an offset held in hundredths: half goes to even
RoundOffset(offset) ==
    LET q == offset \div 100
        r == offset - 100 * q
    IN IF r < 50 THEN q
       ELSE IF r > 50 THEN q + 1
       ELSE IF q % 2 = 0 THEN q ELSE q + 1

\* utils.format_frame_time
format_frame_time(total_frames) ==
    IF total_frames < 0 THEN "--:--:--"
    ELSE LET total_seconds == total_frames \div FPS
         IN Pad2(total_seconds \div 60) \o ":" \o Pad2(total_seconds % 60)
            \o ":" \o Pad2(total_frames % FPS)

Node(frame, name, color) == [frame |-> frame, name |-> name, color |-> color]

\* get_current_display_frame, of the given state
DisplayFrame(magnet, game_frame, offset) ==
    IF magnet THEN game_frame ELSE RoundOffset(offset)
get_current_display_frame ==
    DisplayFrame(magnet_mode, current_game_frame, timeline_offset)

\* a search that finds a node only exactly at the frame
FindNodeExactly(data, frame, tolerance) ==
    LET near == {i \in 1..Len(data) : data[i].frame = frame}
    IN IF near = {} THEN 0 ELSE CHOOSE i \in near : \A j \in near : i <= j

\* _find_node_at: the index of the first node at the least distance within
\* the tolerance, 0 if there is none
find_node_at(data, frame, tolerance) ==
    LET near == {i \in 1..Len(data) : Abs(data[i].frame - frame) <= tolerance}
    IN IF near = {} THEN 0
       ELSE CHOOSE i \in near :
              \A j \in near :
                 \/ Abs(data[i].frame - frame) < Abs(data[j].frame - frame)
                 \/ (Abs(data[i].frame - frame) = Abs(data[j].frame - frame) /\ i <= j)

\* _find_next_node: the first node, in the stable order by frame, after
\* from_frame; <<>> if there is none
find_next_node(data, from_frame) ==
    LET later == {i \in 1..Len(data) : data[i].frame > from_frame}
    IN IF later = {} THEN <<>>
       ELSE <<data[CHOOSE i \in later :
                     \A j \in later :
                        \/ data[i].frame < data[j].frame
                        \/ (data[i].frame = data[j].frame /\ i <= j)]>>

\* the index of the next colour of the palette; an unknown colour gives the
\* first one
NextColor(color) ==
    LET at == {i \in 1..Len(NODE_COLORS) : NODE_COLORS[i] = color}
    IN IF at = {} THEN NODE_COLORS[1]
       ELSE NODE_COLORS[((CHOOSE i \in at : TRUE) % Len(NODE_COLORS)) + 1]

\* str.strip of the names the rename dialog is given
Strip(name) == IF name = " " THEN "" ELSE name

\* ---------------------------------------- timeline tool: inputs
GameFrames == {0, 4, 9}
WsMessages == [isRunning : BOOLEAN, totalElapsedFrames : GameFrames]
PointerXs == {0, 8, 40}
LeadEntries == {-5, 4, 400}
NameEntries == {"boss", " ", ""}

\* ---------------------------------------- websocket_client.py
\* websockets.connect raises: OSError or any other Exception, both sleep
WsConnectFails ==
    /\ ws_pc = "connecting"
    /\ ws_pc' = "sleeping"
    /\ ws_slept' = 0
    /\ UNCHANGED <<ruler, timeline>>

WsConnected ==
    /\ ws_pc = "connecting"
    /\ ws_pc' = "connected"
    /\ UNCHANGED <<ruler, ws_slept, timeline>>

\* a message arrives; one that is not JSON is logged and dropped
WsMessage(data, is_json) ==
    /\ ws_pc = "connected"
    /\ Len(ws_queue) < MaxWsQueue
    /\ ws_queue' = IF is_json THEN Append(ws_queue, data) ELSE ws_queue
    /\ UNCHANGED <<ruler, ws, tool_mode, timeline_data, current_game_frame,
                   magnet_mode, current_next_node, alerts, scroll, pointer>>

\* the connection ends.  ConnectionClosedError, OSError and other exceptions
\* reach an except clause that sleeps; after a normal closure the iteration
\* just ends and the while loop connects again
WsClosed(how) ==
    /\ ws_pc = "connected"
    /\ IF how = "ConnectionClosedOK"
       THEN ws_pc' = "connecting" /\ UNCHANGED ws_slept
       ELSE ws_pc' = "sleeping" /\ ws_slept' = 0
    /\ UNCHANGED <<ruler, timeline>>

\* one second of asyncio.sleep(WEBSOCKET_RECONNECT_DELAY)
WsSleep ==
    /\ ws_pc = "sleeping"
    /\ ws_slept < WEBSOCKET_RECONNECT_DELAY
    /\ ws_slept' = ws_slept + 1
    /\ UNCHANGED <<ruler, ws_pc, timeline>>

WsWake ==
    /\ ws_pc = "sleeping"
    /\ ws_slept = WEBSOCKET_RECONNECT_DELAY
    /\ ws_pc' = "connecting"
    /\ UNCHANGED <<ruler, ws_slept, timeline>>

\* ---------------------------------------- app.py: the UI tick
\* INERTIA_FRICTION = 0.92, in hundredths
INERTIA_FRICTION_PCT == 92

\* lines 154-157: the frame of the last isRunning message of the queue
DrainedGameFrame(msgs, game_frame) ==
    LET running == {i \in 1..Len(msgs) : msgs[i].isRunning}
    IN IF running = {} THEN game_frame
       ELSE msgs[CHOOSE i \in running : \A j \in running : j <= i].totalElapsedFrames

\* _handle_alerts: the sound is due
SoundDue(time_to_next, node_frame) ==
    /\ HAS_WINSOUND
    /\ sound_alert_enabled
    /\ 0 < time_to_next
    /\ time_to_next <= alert_lead_frames.sound
    /\ last_sound_alert_frame # node_frame

should_be_flashing(time_to_next) ==
    /\ visual_alert_enabled
    /\ 0 < time_to_next
    /\ time_to_next <= alert_lead_frames.visual

\* flashing that, once started, never stops
FlashingLatched(should, flashing) == should \/ flashing

\* lines 543-547
Flashing(should, flashing) ==
    IF should /\ ~ flashing THEN TRUE
    ELSE IF ~ should /\ flashing THEN FALSE
    ELSE flashing

\* _process_ws_queue: drain the queue, one step of the animation or of the
\* inertial scroll, then _update_display with its alerts
TlTick ==
    /\ ws_queue' = <<>>
    /\ current_game_frame' = DrainedGameFrame(ws_queue, current_game_frame)
    /\ IF is_animating
       THEN LET distance == animation_target_frame * 100 - timeline_offset
            IN /\ IF Abs(distance) < 50
                  THEN /\ timeline_offset' = animation_target_frame * 100
                       /\ is_animating' = FALSE
                  ELSE /\ timeline_offset' = timeline_offset + TruncDiv(distance * 20, 100)
                       /\ UNCHANGED is_animating
               /\ UNCHANGED <<is_inertial_scrolling, inertia_velocity>>
       ELSE IF is_inertial_scrolling
       THEN LET velocity == TruncDiv(inertia_velocity * INERTIA_FRICTION_PCT, 100)
            IN /\ timeline_offset' = timeline_offset
                                     - TruncDiv(inertia_velocity, TIMELINE_DRAG_SENSITIVITY)
               /\ IF Abs(velocity) < 10
                  THEN is_inertial_scrolling' = FALSE /\ inertia_velocity' = 0
                  ELSE inertia_velocity' = velocity /\ UNCHANGED is_inertial_scrolling
               /\ UNCHANGED is_animating
       ELSE UNCHANGED <<timeline_offset, is_animating, is_inertial_scrolling,
                        inertia_velocity>>
    /\ Abs(timeline_offset') <= MaxOffset * 100
    /\ LET center_frame == DisplayFrame(magnet_mode, current_game_frame', timeline_offset')
           next == find_next_node(timeline_data, center_frame)
           alerting == tool_mode = "following" /\ next # <<>>
           time_to_alert == IF alerting THEN next[1].frame - center_frame ELSE -1
           node_frame == IF alerting THEN next[1].frame ELSE -1
       IN /\ current_next_node' = next
          /\ IF SoundDue(time_to_alert, node_frame)
             THEN /\ last_sound_alert_frame' = node_frame
                  /\ sounded' = sounded \cup {node_frame}
             ELSE UNCHANGED <<last_sound_alert_frame, sounded>>
          /\ is_flashing' = Flashing(should_be_flashing(time_to_alert), is_flashing)
    /\ UNCHANGED <<ruler, ws, tool_mode, timeline_data, magnet_mode,
                   sound_alert_enabled, visual_alert_enabled, alert_lead_frames,
                   animation_target_frame, pointer>>

\* ---------------------------------------- app.py: the buttons
\* the radio buttons write mode, whose trace runs _update_ui_for_mode
SetMode(m) ==
    /\ tool_mode' = m
    /\ is_flashing' = FALSE
    /\ magnet_mode' = (m = "following")
    /\ UNCHANGED <<ruler, ws, ws_queue, timeline_data, current_game_frame,
                   current_next_node, sound_alert_enabled, visual_alert_enabled,
                   alert_lead_frames, last_sound_alert_frame, sounded, scroll, pointer>>

\* a magnet button that leaves the timeline where it is
MagnetToggleOnly ==
    /\ tool_mode = "editing"
    /\ magnet_mode' = ~ magnet_mode
    /\ UNCHANGED <<ruler, ws, ws_queue, tool_mode, timeline_data,
                   current_game_frame, current_next_node, alerts, timeline_offset,
                   is_animating, animation_target_frame, is_inertial_scrolling,
                   inertia_velocity, pointer>>

\* the magnet button of editing mode: toggler, then on_magnet_toggle
MagnetToggle ==
    /\ tool_mode = "editing"
    /\ magnet_mode' = ~ magnet_mode
    /\ timeline_offset' = IF ~ magnet_mode' THEN current_game_frame * 100
                          ELSE timeline_offset
    /\ UNCHANGED <<ruler, ws, ws_queue, tool_mode, timeline_data,
                   current_game_frame, current_next_node, alerts, is_animating,
                   animation_target_frame, is_inertial_scrolling, inertia_velocity,
                   pointer>>

\* a list without its element i
RemoveAt(data, i) == [k \in 1..(Len(data) - 1) |-> IF k < i THEN data[k] ELSE data[k + 1]]

\* _add_or_remove_node_at_cursor
AddOrRemoveNode ==
    /\ tool_mode = "editing"
    /\ edits < MaxEdits
    /\ edits' = edits + 1
    /\ LET current_frame == get_current_display_frame
           node_to_remove == find_node_at(timeline_data, current_frame, NODE_FIND_TOLERANCE)
       IN IF node_to_remove # 0
          THEN /\ timeline_data' = RemoveAt(timeline_data, node_to_remove)
               /\ sounded' = sounded \ {timeline_data[node_to_remove].frame}
          ELSE /\ Len(timeline_data) < MaxNodes
               /\ timeline_data' =
                      Append(timeline_data,
                             Node(current_frame, "op@" \o format_frame_time(current_frame),
                                  NODE_COLORS[1]))
               /\ UNCHANGED sounded
    /\ UNCHANGED <<ruler, ws, ws_queue, tool_mode, current_game_frame,
                   magnet_mode, current_next_node, sound_alert_enabled,
                   visual_alert_enabled, alert_lead_frames, last_sound_alert_frame,
                   is_flashing, scroll,
                   timeline_drag_data, button_down, drags>>

\* _change_node_color_at_cursor
ChangeNodeColor ==
    /\ tool_mode = "editing"
    /\ edits < MaxEdits
    /\ edits' = edits + 1
    /\ LET node == find_node_at(timeline_data, get_current_display_frame,
                                NODE_FIND_TOLERANCE)
       IN /\ node # 0
          /\ timeline_data' = [timeline_data EXCEPT
                                 ![node].color = NextColor(timeline_data[node].color)]
    /\ UNCHANGED <<ruler, ws, ws_queue, tool_mode, current_game_frame,
                   magnet_mode, current_next_node, alerts, scroll,
                   timeline_drag_data, button_down, drags>>

\* _rename_node_logic on the node with this index: an empty or blank entry,
\* or a cancelled dialog, changes nothing
Renamed(data, node, new_name) ==
    IF node # 0 /\ new_name # "" /\ Strip(new_name) # ""
    THEN [data EXCEPT ![node].name = Strip(new_name)]
    ELSE data

\* _rename_node_at_cursor
RenameNodeAtCursor(new_name) ==
    /\ tool_mode = "editing"
    /\ edits < MaxEdits
    /\ edits' = edits + 1
    /\ timeline_data' = Renamed(timeline_data,
                                find_node_at(timeline_data, get_current_display_frame,
                                             NODE_FIND_TOLERANCE),
                                new_name)
    /\ UNCHANGED <<ruler, ws, ws_queue, tool_mode, current_game_frame,
                   magnet_mode, current_next_node, alerts, scroll,
                   timeline_drag_data, button_down, drags>>

\* the place in the list of the node object current_next_node refers to, 0
\* once that node has been removed
IndexOfNext ==
    IF current_next_node = <<>> THEN 0
    ELSE LET same == {i \in 1..Len(timeline_data) :
                        timeline_data[i].frame = current_next_node[1].frame}
         IN IF same = {} THEN 0 ELSE CHOOSE i \in same : TRUE

\* _on_node_name_click in editing mode: the node on the cursor, else the
\* next node
NodeNameClick(new_name) ==
    /\ tool_mode = "editing"
    /\ edits < MaxEdits
    /\ edits' = edits + 1
    /\ LET node_on_cursor == find_node_at(timeline_data, get_current_display_frame,
                                          NODE_FIND_TOLERANCE)
       IN timeline_data' = Renamed(timeline_data,
                                   IF node_on_cursor # 0 THEN node_on_cursor
                                   ELSE IndexOfNext,
                                   new_name)
    /\ UNCHANGED <<ruler, ws, ws_queue, tool_mode, current_game_frame,
                   magnet_mode, current_next_node, alerts, scroll,
                   timeline_drag_data, button_down, drags>>

\* the toggle buttons of following mode
ToggleSoundAlert ==
    /\ tool_mode = "following"
    /\ sound_alert_enabled' = ~ sound_alert_enabled
    /\ UNCHANGED <<ruler, ws, ws_queue, tool_mode, timeline_data,
                   current_game_frame, magnet_mode, current_next_node,
                   visual_alert_enabled, alert_lead_frames, last_sound_alert_frame,
                   is_flashing, sounded, scroll, pointer>>

ToggleVisualAlert ==
    /\ tool_mode = "following"
    /\ visual_alert_enabled' = ~ visual_alert_enabled
    /\ UNCHANGED <<ruler, ws, ws_queue, tool_mode, timeline_data,
                   current_game_frame, magnet_mode, current_next_node,
                   sound_alert_enabled, alert_lead_frames, last_sound_alert_frame,
                   is_flashing, sounded, scroll, pointer>>

\* _update_alert_lead on a number typed in the spinbox
UpdateAlertLead(entry) ==
    /\ tool_mode = "following"
    /\ LET frames == Max(0, IF entry <= MAX_LEAD_FRAMES THEN entry ELSE MAX_LEAD_FRAMES)
       IN alert_lead_frames' = [sound |-> frames, visual |-> frames]
    /\ UNCHANGED <<ruler, ws, ws_queue, tool_mode, timeline_data,
                   current_game_frame, magnet_mode, current_next_node,
                   sound_alert_enabled, visual_alert_enabled, last_sound_alert_frame,
                   is_flashing, sounded, scroll, pointer>>

\* ---------------------------------------- app.py: the timeline canvas
\* pointer positions are event.x - width / 2, in pixels

\* _on_timeline_drag_start
TimelineDragStart(x) ==
    /\ ~ button_down
    /\ drags < MaxDrags
    /\ drags' = drags + 1
    /\ button_down' = TRUE
    /\ is_animating' = FALSE
    /\ is_inertial_scrolling' = FALSE
    /\ timeline_drag_data' = [x |-> x, start_x |-> x, is_dragging |-> FALSE, last_dx |-> 0]
    /\ UNCHANGED <<ruler, ws, ws_queue, tool_mode, timeline_data,
                   current_game_frame, magnet_mode, current_next_node, alerts,
                   timeline_offset, animation_target_frame, inertia_velocity, edits>>

\* _on_timeline_drag_motion
TimelineDragMotion(x) ==
    /\ button_down
    /\ LET dragging == \/ timeline_drag_data.is_dragging
                       \/ Abs(x - timeline_drag_data.start_x) > 5
           dx == x - timeline_drag_data.x
       IN IF ~ dragging
          THEN UNCHANGED <<timeline_drag_data, magnet_mode, timeline_offset>>
          ELSE /\ timeline_drag_data' = [timeline_drag_data EXCEPT
                                           !.is_dragging = TRUE, !.last_dx = dx, !.x = x]
               /\ IF magnet_mode
                  THEN IF Abs(dx) > MAGNET_BREAK_THRESHOLD
                       THEN /\ magnet_mode' = FALSE
                            /\ timeline_offset' =
                                   (current_game_frame
                                    - TruncDiv(dx, TIMELINE_DRAG_SENSITIVITY)) * 100
                       ELSE UNCHANGED <<magnet_mode, timeline_offset>>
                  ELSE /\ timeline_offset' =
                              timeline_offset
                              - TruncDiv(dx, TIMELINE_DRAG_SENSITIVITY) * 100
                       /\ UNCHANGED magnet_mode
    /\ Abs(timeline_offset') <= MaxOffset * 100
    /\ UNCHANGED <<ruler, ws, ws_queue, tool_mode, timeline_data,
                   current_game_frame, current_next_node, alerts, is_animating,
                   animation_target_frame, is_inertial_scrolling, inertia_velocity,
                   button_down, drags, edits>>

\* _on_timeline_release, with _animate_scroll_to
TimelineRelease(x) ==
    /\ button_down
    /\ button_down' = FALSE
    /\ timeline_drag_data' = [timeline_drag_data EXCEPT !.is_dragging = FALSE]
    /\ IF timeline_drag_data.is_dragging
       THEN /\ IF ~ magnet_mode
               THEN /\ inertia_velocity' = timeline_drag_data.last_dx * 100
                    /\ is_inertial_scrolling' = TRUE
               ELSE UNCHANGED <<inertia_velocity, is_inertial_scrolling>>
            /\ UNCHANGED <<is_animating, animation_target_frame>>
       ELSE LET clicked_frame ==
                    TruncDiv(timeline_offset + (x * 100) \div PIXELS_PER_FRAME, 100)
                node_to_snap == IF magnet_mode THEN 0
                                ELSE find_node_at(timeline_data, clicked_frame,
                                                  NODE_CLICK_TOLERANCE)
            IN IF node_to_snap # 0 /\ ~ is_animating
               THEN /\ is_inertial_scrolling' = FALSE
                    /\ is_animating' = TRUE
                    /\ animation_target_frame' = timeline_data[node_to_snap].frame
                    /\ UNCHANGED inertia_velocity
               ELSE UNCHANGED <<inertia_velocity, is_inertial_scrolling, is_animating,
                                animation_target_frame>>
    /\ UNCHANGED <<ruler, ws, ws_queue, tool_mode, timeline_data,
                   current_game_frame, magnet_mode, current_next_node, alerts,
                   timeline_offset, drags, edits>>

\* ---------------------------------------- timeline tool: specifications
\* SpecWs: the WebSocket client of the timeline tool against a server that
\* accepts or refuses, sends messages, and closes in every way; the UI tick
\* drains what the client queued.
CloseKinds == {"ConnectionClosedOK", "ConnectionClosedError", "OSError", "Exception"}

NextWs ==
    \/ WsConnectFails
    \/ WsConnected
    \/ \E data \in WsMessages : \E is_json \in BOOLEAN : WsMessage(data, is_json)
    \/ \E how \in CloseKinds : WsClosed(how)
    \/ WsSleep
    \/ WsWake
    \/ TlTick

InitWs == InitWith({}, {NoFile})

SpecWs == InitWs /\ [][NextWs]_vars

\* C14 (as claimed): every connection attempt after the first follows a
\* full WEBSOCKET_RECONNECT_DELAY seconds of waiting since the previous
\* connection ended, however it ended.
C14_WaitsBeforeRetry ==
    [][(ws_pc' = "connecting" /\ ws_pc # "connecting")
         => (ws_pc = "sleeping" /\ ws_slept = WEBSOCKET_RECONNECT_DELAY)]_vars

\* ================================================ the configuration wizard
\* what the user may type into the entries
PathEntries == {"", " ", "C:/MuMu"}
InstanceEntries == {"0", "1", "x"}
DeviceIdEntries == {"", "emulator-5554"}

\* str.strip of those entries
StripEntry(text) == IF text = " " THEN "" ELSE text

\* int(instance_str), 0 on ValueError
InstanceIndex(instance_str) ==
    IF instance_str = "0" THEN 0 ELSE IF instance_str = "1" THEN 1 ELSE 0

\* the dict _save_and_close builds; "" and -1 stand for a key that is absent
ConfigRecord(type, install_path, instance_index, device_id) ==
    [type |-> type, active_calibration_profile |-> NoFile,
     install_path |-> install_path, instance_index |-> instance_index,
     device_id |-> device_id]

\* the radio buttons
WizardSelectType(type) ==
    /\ wizard_open
    /\ controller_type' = type
    /\ UNCHANGED <<beside_wizard, wizard_open, mumu_path_entry,
                   mumu_instance_entry, minicap_id_entry, config_data, config_file,
                   save_config_arg>>

\* typing into the entries, or _browse_mumu_path
WizardEnter(path, instance, device_id) ==
    /\ wizard_open
    /\ mumu_path_entry' = path
    /\ mumu_instance_entry' = instance
    /\ minicap_id_entry' = device_id
    /\ UNCHANGED <<beside_wizard, wizard_open, controller_type,
                   config_data, config_file, save_config_arg>>

\* _save_and_close; save_config swallows a failed write
WizardSaveAndClose(write_ok) ==
    /\ wizard_open
    /\ LET cfg_type == controller_type
           started == ConfigRecord(cfg_type, "", -1, "")
           mumu_path == StripEntry(mumu_path_entry)
       IN IF cfg_type = "mumu" /\ mumu_path = ""
          THEN /\ config_data' = <<started>>
               /\ UNCHANGED <<wizard_open, config_file, save_config_arg>>
          ELSE LET finished ==
                       IF cfg_type = "mumu"
                       THEN ConfigRecord(cfg_type, mumu_path,
                                         InstanceIndex(StripEntry(mumu_instance_entry)), "")
                       ELSE ConfigRecord(cfg_type, "", -1, StripEntry(minicap_id_entry))
               IN /\ config_data' = <<finished>>
                  /\ save_config_arg' = <<finished>>
                  /\ config_file' = IF write_ok THEN <<finished>> ELSE config_file
                  /\ wizard_open' = FALSE
    /\ UNCHANGED <<beside_wizard, controller_type, mumu_path_entry,
                   mumu_instance_entry, minicap_id_entry>>

\* the user closes the window without saving
WizardDismiss ==
    /\ wizard_open
    /\ wizard_open' = FALSE
    /\ UNCHANGED <<beside_wizard, controller_type, mumu_path_entry,
                   mumu_instance_entry, minicap_id_entry, config_data, config_file,
                   save_config_arg>>

\* create_config_with_gui returns window.config_data once the window is gone
create_config_with_gui == config_data

NextWizard ==
    \/ \E type \in {"mumu", "minicap"} : WizardSelectType(type)
    \/ \E path \in PathEntries : \E instance \in InstanceEntries :
          \E device_id \in DeviceIdEntries : WizardEnter(path, instance, device_id)
    \/ \E write_ok \in BOOLEAN : WizardSaveAndClose(write_ok)
    \/ WizardDismiss

InitWizard == InitWith({}, {NoFile})

SpecWizard == InitWizard /\ [][NextWizard]_vars

\* C15 (as claimed): once the wizard window is gone, create_config_with_gui
\* returns None unless the record it returns is the one save_config was
\* called with.
C15_AbsentUnlessSaved ==
    ~ wizard_open =>
        (create_config_with_gui = <<>> \/ create_config_with_gui = save_config_arg)

\* ============================================ the timeline tool in use
\* SpecAlerts: the tool connected to the ruler, whose game clock moves
\* among GameFrames (a retried stage starts again at 0); the user marks nodes
\* in editing mode with the magnet on, switches modes and sets the alerts.
RunningMessages == {data \in WsMessages : data.isRunning}

NextAlerts ==
    \/ WsConnected
    \/ \E data \in RunningMessages : WsMessage(data, TRUE)
    \/ TlTick
    \/ \E m \in {"editing", "following"} : SetMode(m)
    \/ MagnetToggle
    \/ AddOrRemoveNode
    \/ ToggleSoundAlert
    \/ ToggleVisualAlert
    \/ \E entry \in LeadEntries : UpdateAlertLead(entry)

InitAlerts == InitWith({}, {NoFile})

SpecAlerts == InitAlerts /\ [][NextAlerts]_vars

\* SpecFlash: as SpecAlerts, with the sound alert left as it starts.
NextFlash ==
    \/ WsConnected
    \/ \E data \in RunningMessages : WsMessage(data, TRUE)
    \/ TlTick
    \/ \E m \in {"editing", "following"} : SetMode(m)
    \/ MagnetToggle
    \/ AddOrRemoveNode
    \/ ToggleVisualAlert
    \/ \E entry \in LeadEntries : UpdateAlertLead(entry)

InitFlash == InitWith({}, {NoFile})

SpecFlash == InitFlash /\ [][NextFlash]_vars

\* the frames left to the next node, as the display last computed them
Remaining == current_next_node[1].frame - get_current_display_frame

\* the tick played the sound: only then does last_sound_alert_frame change
SoundPlayed == TlTick /\ last_sound_alert_frame' # last_sound_alert_frame

\* C16 (as claimed): in following mode with the sound alert enabled, a tick
\* plays the sound only for a node it has not yet played for, and it plays
\* it at the first tick that finds the frames left to the next node within
\* (0, lead_frames].
C16_SoundOncePerNode ==
    [][(TlTick /\ tool_mode = "following" /\ sound_alert_enabled)
         => /\ SoundPlayed => last_sound_alert_frame' \notin sounded
            /\ ( /\ current_next_node' # <<>>
                 /\ 0 < Remaining'
                 /\ Remaining' <= alert_lead_frames.sound
                 /\ current_next_node'[1].frame \notin sounded ) => SoundPlayed]_vars

\* C17: after every UI tick is_flashing is true exactly when the tool is in
\* following mode, the visual alert is enabled and the frames left to the
\* next node lie within (0, lead_frames]; so it is false after the first
\* tick that finds them outside.
ShouldFlash ==
    /\ tool_mode = "following"
    /\ visual_alert_enabled
    /\ current_next_node # <<>>
    /\ 0 < Remaining
    /\ Remaining <= alert_lead_frames.visual

C17_FlashingIffInRange == [][TlTick => (is_flashing' = ShouldFlash')]_vars

\* a tick has started the flashing in range, the lead shortened to 4 frames
C17_Witness ==
    /\ is_flashing
    /\ ShouldFlash
    /\ alert_lead_frames.visual = 4
    /\ Len(timeline_data) = 2

\* SpecDrag: the tool connected to the ruler; the user switches modes and
\* drags, clicks and releases on the timeline canvas.
NextDrag ==
    \/ WsConnected
    \/ \E data \in RunningMessages : WsMessage(data, TRUE)
    \/ TlTick
    \/ \E m \in {"editing", "following"} : SetMode(m)
    \/ \E x \in PointerXs : TimelineDragStart(x)
    \/ \E x \in PointerXs : TimelineDragMotion(x)
    \/ \E x \in PointerXs : TimelineRelease(x)

InitDrag == InitWith({}, {NoFile})

SpecDrag == InitDrag /\ [][NextDrag]_vars

\* C18 (as claimed): whenever the tool is in following mode, magnet_mode is
\* on and the frame at the centre of the display is the live game frame.
C18_FollowingKeepsMagnet ==
    tool_mode = "following"
        => (magnet_mode /\ get_current_display_frame = current_game_frame)

\* SpecEditing: the tool on its own, never connected to a ruler, so the
\* game frame stays 0; the user edits an empty timeline, scrolling it with
\* drags, inertia, click-snaps and the magnet.
NextEditing ==
    \/ TlTick
    \/ MagnetToggle
    \/ AddOrRemoveNode
    \/ ChangeNodeColor
    \/ \E new_name \in NameEntries : RenameNodeAtCursor(new_name)
    \/ \E new_name \in NameEntries : NodeNameClick(new_name)
    \/ \E x \in PointerXs : TimelineDragStart(x)
    \/ \E x \in PointerXs : TimelineDragMotion(x)
    \/ \E x \in PointerXs : TimelineRelease(x)

InitEditing == InitWith({}, {NoFile})

SpecEditing == InitEditing /\ [][NextEditing]_vars

\* C19 (as claimed): every node of the timeline has a frame that is not
\* negative and a colour of the palette.
C19_NodesWellFormed ==
    \A i \in 1..Len(timeline_data) :
       /\ timeline_data[i].frame >= 0
       /\ \E k \in 1..Len(NODE_COLORS) : timeline_data[i].color = NODE_COLORS[k]

\* ================================= utils.get_logical_frame_from_calibration
\* str(n) of a width, as the sequence of its decimal digits
RECURSIVE str(_)
str(n) == IF n < 10 THEN <<n>> ELSE Append(str(n \div 10), n % 10)

\* int(s) of such a key
RECURSIVE int(_)
int(s) == IF s = <<>> THEN 0 ELSE 10 * int(SubSeq(s, 1, Len(s) - 1)) + s[Len(s)]

\* the widths calibrate may have seen, and the readings to look up
KeyWidths == {0, 2, 8, 12, 20, 27}
RawWidths == (0..MaxWidth) \cup {NoWidth}

\* the pixel_to_frame_map calibrate builds from these widths: "0" first with
\* frame 0, then the other widths in ascending order
PixelMapOf(widths, num_hidden_frames) ==
    LET unique_pixel_widths == SetToSortedSeq(widths)
        non_zero_before(i) == Cardinality({j \in 1..i : unique_pixel_widths[j] > 0})
    IN [i \in 1..Len(unique_pixel_widths) |->
          [key |-> str(unique_pixel_widths[i]),
           frame |-> IF unique_pixel_widths[i] = 0 THEN 0
                     ELSE non_zero_before(i) - 1 + 1 + num_hidden_frames]]
PixelMaps == {PixelMapOf(widths, h) : widths \in SUBSET KeyWidths, h \in 0..MaxHidden}

\* pixel_map[key]
MapGet(pixel_map, key) ==
    pixel_map[CHOOSE i \in 1..Len(pixel_map) : pixel_map[i].key = key].frame
HasKey(pixel_map, key) == \E i \in 1..Len(pixel_map) : pixel_map[i].key = key

\* lines 198-206: the loop over the keys from the i-th on; min_diff is <<>>
\* for float('inf')
RECURSIVE ClosestFrom(_, _, _, _, _)
ClosestFrom(pixel_map, width, i, closest_pixel_value, min_diff) ==
    IF i > Len(pixel_map) THEN [closest_pixel_value |-> closest_pixel_value,
                                min_diff |-> min_diff]
    ELSE LET pixel_val == int(pixel_map[i].key)
             diff == Abs(width - pixel_val)
         IN IF min_diff = <<>> \/ diff < min_diff[1]
            THEN ClosestFrom(pixel_map, width, i + 1, pixel_val, <<diff>>)
            ELSE ClosestFrom(pixel_map, width, i + 1, closest_pixel_value, min_diff)

\* a difference that strictly less than TOLERANCE accepts
WithinToleranceStrict(min_diff) == min_diff # <<>> /\ min_diff[1] < TOLERANCE

\* line 211
WithinTolerance(min_diff) == min_diff # <<>> /\ min_diff[1] <= TOLERANCE

get_logical_frame_from_calibration(width, pixel_map) ==
    IF width = NoWidth THEN NoReading
    ELSE IF HasKey(pixel_map, str(width)) THEN MapGet(pixel_map, str(width))
    ELSE LET found == ClosestFrom(pixel_map, width, 1, -1, <<>>)
         IN IF WithinTolerance(found.min_diff)
            THEN MapGet(pixel_map, str(found.closest_pixel_value))
            ELSE NoReading

\* the worker takes a calibrated profile as its active calibration data;
\* nothing has been looked up in it yet
UseCalibration(pixel_map) ==
    /\ lookup_pixel_map' = pixel_map
    /\ current_pixel_width' = NoWidth
    /\ returned_frame' = NoReading
    /\ UNCHANGED beside_lookup

\* one call on a captured frame
LookupFrame(width) ==
    /\ current_pixel_width' = width
    /\ returned_frame' = get_logical_frame_from_calibration(width, lookup_pixel_map)
    /\ UNCHANGED <<beside_lookup, lookup_pixel_map>>

NextLookup ==
    \/ \E pixel_map \in PixelMaps : UseCalibration(pixel_map)
    \/ \E width \in RawWidths : LookupFrame(width)

InitLookup == InitWith({}, {NoFile})

SpecLookup == InitLookup /\ [][NextLookup]_vars

\* the least distance from the reading to a key of the map
KeyValues == {int(lookup_pixel_map[i].key) : i \in 1..Len(lookup_pixel_map)}
Nearest == {k \in KeyValues :
              \A other \in KeyValues :
                 Abs(current_pixel_width - k) <= Abs(current_pixel_width - other)}
FrameOfKey(k) ==
    lookup_pixel_map[CHOOSE i \in 1..Len(lookup_pixel_map) :
                        int(lookup_pixel_map[i].key) = k].frame

\* C20: get_logical_frame_from_calibration returns the stored frame for a
\* width that is a key of the map; otherwise the frame of a numerically
\* closest key if that key is at most 5 away; otherwise, when every key is
\* 6 or more away, the map is empty or there is no raw reading, it returns
\* no reading.
C20_LookupWithinTolerance ==
    IF current_pixel_width = NoWidth THEN returned_frame = NoReading
    ELSE IF current_pixel_width \in KeyValues
    THEN returned_frame = FrameOfKey(current_pixel_width)
    ELSE IF \E k \in KeyValues : Abs(current_pixel_width - k) <= 5
    THEN \E k \in Nearest : returned_frame = FrameOfKey(k)
    ELSE returned_frame = NoReading

\* a reading exactly 5 away from its nearest key got that key's frame
C20_Witness ==
    /\ current_pixel_width = 17
    /\ KeyValues = {0, 12, 27}
    /\ returned_frame = FrameOfKey(12)
    /\ returned_frame = 2

\* ============================================ calibrate(): the modelling
\* cycle samples the collection may deliver: raw widths of one cost-bar
\* cycle in capture order.  SA and SB share 8 of their 10 widths, SA and SC
\* share 7 of 10, SD is the other cycle of an alternating bar, SF never
\* shows width 0 and SG rests on width 0 for two frames.
SA == <<0, 1, 2, 3, 4, 5, 6, 7, 8>>
SB == <<0, 1, 2, 3, 4, 5, 6, 7, 9>>
SC == <<0, 1, 2, 3, 4, 5, 6, 9>>
SD == <<20, 21, 21, 20>>
SF == <<3, 5, 5, 3>>
SG == <<0, 0, 0, 0, 3, 3, 5, 5>>
SampleChoices == {SA, SB, SC, SD, SF, SG}

\* calibrate() is called: nothing collected yet
StartCollecting ==
    /\ calibrated # <<>>
    /\ cal_samples' = <<>>
    /\ cal_done' = 0
    /\ cal_clusters' = <<>>
    /\ calibrated' = <<>>
    /\ UNCHANGED beside_modelling

\* the data collection completes one more cycle, line 235
CollectSample(sample) ==
    /\ calibrated = <<>>
    /\ cal_done = 0
    /\ Len(cal_samples) < MaxCycles
    /\ cal_samples' = Append(cal_samples, sample)
    /\ UNCHANGED <<beside_modelling, cal_done, cal_clusters, calibrated>>

\* one pass of the clustering loop, lines 250-272
ClusterNext ==
    /\ calibrated = <<>>
    /\ cal_done < Len(cal_samples)
    /\ cal_clusters' = ClusterSamples(<<cal_samples[cal_done + 1]>>, cal_clusters)
    /\ cal_done' = cal_done + 1
    /\ UNCHANGED <<beside_modelling, cal_samples, calibrated>>

\* lines 274-334, after the loop; without samples calibrate has raised
\* before the loop
BuildProfiles ==
    /\ calibrated = <<>>
    /\ cal_done = Len(cal_samples)
    /\ calibrated' = <<IF cal_samples = <<>> THEN calibrate(<<>>)
                       ELSE BuildCalibration(cal_clusters)>>
    /\ UNCHANGED <<beside_modelling, cal_samples, cal_done, cal_clusters>>

NextModelling ==
    \/ StartCollecting
    \/ \E sample \in SampleChoices : CollectSample(sample)
    \/ ClusterNext
    \/ BuildProfiles

InitModelling == InitWith({}, {NoFile})

SpecModelling == InitModelling /\ [][NextModelling]_vars

\* the sample the clustering loop takes next, and its overlap with the
\* first sample of the i-th cluster
NextSample == cal_samples[cal_done + 1]
Shared(i) == Cardinality(ToSet(NextSample) \cap ToSet(cal_clusters[i][1]))
Distinct(i) == Cardinality(ToSet(NextSample) \cup ToSet(cal_clusters[i][1]))

\* how often sample x occurs among the clusters, and among the samples
\* processed
TimesClustered(x) ==
    Cardinality({<<i, j>> \in (1..Len(cal_clusters)) \X (1..MaxCycles + 1) :
                    j <= Len(cal_clusters[i]) /\ cal_clusters[i][j] = x})
TimesProcessed(x) == Cardinality({k \in 1..cal_done : cal_samples[k] = x})

\* C21: in collection order each sample joins the cluster whose first
\* sample is the most similar (Jaccard, on the sets of widths) when that
\* similarity is at least 8/10, and otherwise starts a new cluster; every
\* sample processed is in exactly one cluster; detection_mode is
\* "alternating" exactly when there is more than one cluster.
C21_ClusterByJaccard ==
    /\ [][ClusterNext =>
            IF \E i \in 1..Len(cal_clusters) : 10 * Shared(i) >= 8 * Distinct(i)
            THEN \E i \in 1..Len(cal_clusters) :
                    /\ \A j \in 1..Len(cal_clusters) :
                          Shared(i) * Distinct(j) >= Shared(j) * Distinct(i)
                    /\ cal_clusters' = [cal_clusters EXCEPT ![i] = Append(@, NextSample)]
            ELSE cal_clusters' = Append(cal_clusters, <<NextSample>>)]_vars
    /\ [](\A x \in SampleChoices : TimesClustered(x) = TimesProcessed(x))
    /\ []((calibrated # <<>> /\ ~ calibrated[1].error)
             => (calibrated[1].detection_mode = "alternating" <=> Len(cal_clusters) > 1))

\* SB joined SA's cluster at 8 of 10, SC at 7 of 10 started its own, and
\* the calibration came out alternating
C21_Witness ==
    /\ cal_clusters = <<<<SA, SB>>, <<SC>>>>
    /\ calibrated # <<>>
    /\ calibrated[1].detection_mode = "alternating"

\* ------------------------------------ calibrate(): the frequency table
ZeroCounts == {0, 3, 6, 100}
CountChoices == {1, 2, 10, 20, 500}

RECURSIVE SeqsUpTo(_, _)
SeqsUpTo(S, n) ==
    IF n = 0 THEN {<<>>}
    ELSE LET shorter == SeqsUpTo(S, n - 1)
         IN shorter \cup {Append(q, x) : q \in shorter, x \in S}

\* lines 280-307 for a cluster with this frequency table
InferFromTable(zero_count, counts) ==
    /\ zero_count + Len(counts) > 0
    /\ freq_zero' = zero_count
    /\ freq_non_zero' = counts
    /\ freq_hidden' = HiddenFromCounts(zero_count, counts)
    /\ freq_total' = (IF zero_count > 0 THEN 1 ELSE 0) + Len(counts)
                     + HiddenFromCounts(zero_count, counts)
    /\ UNCHANGED beside_table

NextTable ==
    \E zero_count \in ZeroCounts : \E counts \in SeqsUpTo(CountChoices, MaxCounts) :
       InferFromTable(zero_count, counts)

InitTable == InitWith({}, {NoFile})

SpecTable == InitTable /\ [][NextTable]_vars

\* twice the median of the non-zero counts, and the counts that are not
\* above 5 times that median
AllMedian2 == Median2(freq_non_zero)
Remaining5 == SelectSeq(freq_non_zero, LAMBDA c : 2 * c <= 5 * AllMedian2)

\* C22 (as claimed): with baseline the median of the non-zero counts left
\* after discarding the counts above 5 times the median of all of them,
\* hidden_frames = max(0, round(count_zero / baseline) - 1) and total_frames
\* is the number of distinct widths plus hidden_frames.
C22_HiddenFromBaseline ==
    freq_non_zero # <<>> =>
        /\ freq_hidden = Max(0, RoundHalfEven(2 * freq_zero, Median2(Remaining5)) - 1)
        /\ freq_total = (IF freq_zero > 0 THEN 1 ELSE 0) + Len(freq_non_zero) + freq_hidden

\* the non-zero widths of a pixel_map that are below w
NonZeroBelow(pixel_map, w) == Cardinality({v \in DOMAIN pixel_map : 0 < v /\ v < w})

\* C23 (as claimed): in every profile calibrate produces, width 0 (if it was
\* observed) maps to frame 0, the non-zero widths map in ascending order to
\* consecutive frames from 1 + hidden_frames, and every frame of pixel_map
\* lies in 0..total_frames-1.
C23_FramesWithinTotal ==
    (calibrated # <<>> /\ ~ calibrated[1].error) =>
        \A p \in 1..Len(calibrated[1].profiles) :
           LET profile_p == calibrated[1].profiles[p]
               hidden == HiddenFrames(Flatten(cal_clusters[p]))
           IN \A w \in DOMAIN profile_p.pixel_map :
                 /\ profile_p.pixel_map[w] =
                       IF w = 0 THEN 0
                       ELSE 1 + hidden + NonZeroBelow(profile_p.pixel_map, w)
                 /\ profile_p.pixel_map[w] >= 0
                 /\ profile_p.pixel_map[w] <= profile_p.total_frames - 1

\* ------------------------------------------- load, save and load again
\* a file appears in an empty calibration directory
PutFile(document) ==
    /\ dir_files' = (OldFilename :> document)
    /\ load_step' = "stored"
    /\ first_load' = <<>>
    /\ saved_as' = <<>>
    /\ file_written' = FALSE
    /\ second_load' = <<>>
    /\ UNCHANGED beside_files

\* loaded_data = load_calibration_by_filename(old_filename)
LoadFirst ==
    /\ load_step = "stored"
    /\ first_load' = load_calibration_document(dir_files, OldFilename)
    /\ load_step' = "loaded"
    /\ UNCHANGED <<dir_files, saved_as, file_written, second_load>>
    /\ UNCHANGED beside_files

\* save_calibration_data(loaded_data, loaded_data['screen_width'],
\* loaded_data['screen_height'], basename=new_basename): only for data that
\* was loaded; a missing screen size is a KeyError before the call
SaveLoaded(new_basename, time, write_ok) ==
    /\ load_step = "loaded"
    /\ first_load # <<>>
    /\ first_load[1].screen_width # <<>>
    /\ first_load[1].screen_height # <<>>
    /\ LET loaded_data == first_load[1]
           screen_width == loaded_data.screen_width[1]
           screen_height == loaded_data.screen_height[1]
       IN /\ dir_files' = save_calibration_document(dir_files, loaded_data, screen_width,
                                                    screen_height, new_basename, time, write_ok)
          /\ saved_as' = <<DocumentFilename(loaded_data, screen_width, screen_height,
                                            new_basename)>>
    /\ file_written' = write_ok
    /\ load_step' = "saved"
    /\ UNCHANGED <<first_load, second_load>>
    /\ UNCHANGED beside_files

\* load_calibration_by_filename(new_filename)
ReloadSaved ==
    /\ load_step = "saved"
    /\ second_load' = load_calibration_document(dir_files, saved_as[1])
    /\ load_step' = "reloaded"
    /\ UNCHANGED <<dir_files, first_load, saved_as, file_written>>
    /\ UNCHANGED beside_files

NextFiles ==
    \/ \E document \in Documents : PutFile(document)
    \/ LoadFirst
    \/ \E new_basename \in RenameBases, time \in CalibrationSeconds, write_ok \in BOOLEAN :
          SaveLoaded(new_basename, time, write_ok)
    \/ ReloadSaved

InitFiles == InitWith({}, {NoFile})
SpecFiles == InitFiles /\ [][NextFiles]_vars

\* the object in the file that was loaded first, while it is still as stored
StoredObject == dir_files[OldFilename].obj
IsLegacyFile ==
    /\ dir_files[OldFilename].json
    /\ StoredObject.profiles = <<>>
    /\ StoredObject.pixel_map # <<>> /\ StoredObject.total_frames # <<>>
    /\ StoredObject.screen_width # <<>> /\ StoredObject.screen_height # <<>>
IsNewFile ==
    /\ dir_files[OldFilename].json
    /\ StoredObject.profiles # <<>>
    /\ StoredObject.profiles[1].is_list
    /\ \A i \in 1..Len(StoredObject.profiles[1].items) :
          /\ StoredObject.profiles[1].items[i].total_frames # <<>>
          /\ StoredObject.profiles[1].items[i].pixel_map # <<>>

\* C24: loading a legacy file {pixel_map, total_frames, screen_width,
\* screen_height} returns detection_mode "single" and one profile holding the
\* file's total_frames and pixel_map; loading a new-format file whose
\* profiles all have total_frames and pixel_map returns the file's object
\* unchanged; and loading the file that save_calibration_data wrote from the
\* loaded data returns the same profiles, screen_width and screen_height.
C24_LoadSaveLoad ==
    /\ (load_step = "loaded" /\ IsLegacyFile) =>
          /\ first_load # <<>>
          /\ first_load[1].detection_mode = <<"single">>
          /\ first_load[1].profiles[1].is_list
          /\ first_load[1].profiles[1].items =
                <<[total_frames |-> StoredObject.total_frames,
                   pixel_map |-> StoredObject.pixel_map]>>
    /\ (load_step = "loaded" /\ IsNewFile) => first_load = <<StoredObject>>
    /\ load_step = "reloaded" =>
          /\ second_load # <<>>
          /\ second_load[1].profiles = first_load[1].profiles
          /\ second_load[1].screen_width = first_load[1].screen_width
          /\ second_load[1].screen_height = first_load[1].screen_height

\* ------------------------------------------------ the cost-bar region
REF_WIDTH == 1920
REF_HEIGHT == 1080
X1_OFFSET_FROM_RIGHT_REF == REF_WIDTH - 1739
X2_OFFSET_FROM_RIGHT_REF == REF_WIDTH - 1919
Y1_OFFSET_FROM_BOTTOM_REF == REF_HEIGHT - 810
Y2_OFFSET_FROM_BOTTOM_REF == REF_HEIGHT - 817

\* scale as the fraction <<numerator, denominator>>: by height on a screen at
\* least as wide as 16:9, by width otherwise
RoiScale(screen_width, screen_height) ==
    IF screen_width * REF_HEIGHT >= REF_WIDTH * screen_height
    THEN <<screen_height, REF_HEIGHT>>
    ELSE <<screen_width, REF_WIDTH>>

\* round(length - offset * scale)
RoiEdge(length, offset, scale) ==
    RoundHalfEven(length * scale[2] - offset * scale[1], scale[2])

RoiMidlineOfTop(screen_height, scale) ==
    RoiEdge(screen_height, Y1_OFFSET_FROM_BOTTOM_REF, scale)

\* round((y1 + y2) / 2)
RoiMidline(screen_height, scale) ==
    RoundHalfEven(2 * screen_height * scale[2]
                      - (Y1_OFFSET_FROM_BOTTOM_REF + Y2_OFFSET_FROM_BOTTOM_REF) * scale[1],
                  2 * scale[2])

\* find_cost_bar_roi
find_cost_bar_roi(screen_width, screen_height) ==
    LET scale == RoiScale(screen_width, screen_height)
    IN <<RoiEdge(screen_width, X1_OFFSET_FROM_RIGHT_REF, scale),
         RoiEdge(screen_width, X2_OFFSET_FROM_RIGHT_REF, scale),
         RoiMidline(screen_height, scale)>>

\* the screens an emulator may report
RoiWidths == {960, 1280, 1600, 1920, 2160, 2400, 2560, 3840}
RoiHeights == {540, 720, 900, 1080, 1200, 1440, 1600, 2160}

\* the emulator reports another screen size
Resize(screen_width, screen_height) ==
    /\ roi_screen' = <<screen_width, screen_height>>
    /\ roi' = <<>>
    /\ UNCHANGED beside_geometry

\* roi = find_cost_bar_roi(width, height)
FindRoi ==
    /\ roi = <<>>
    /\ roi' = <<find_cost_bar_roi(roi_screen[1], roi_screen[2])>>
    /\ UNCHANGED roi_screen
    /\ UNCHANGED beside_geometry

NextGeometry ==
    \/ \E screen_width \in RoiWidths, screen_height \in RoiHeights :
          Resize(screen_width, screen_height)
    \/ FindRoi

InitGeometry == InitWith({}, {NoFile})
SpecGeometry == InitGeometry /\ [][NextGeometry]_vars

\* C25 as stated: find_cost_bar_roi(1920, 1080) returns (1739, 1919, 267).
C25_RoiAtReference ==
    (roi_screen = <<1920, 1080>> /\ roi # <<>>) => roi[1] = <<1739, 1919, 267>>

\* C25 amended: find_cost_bar_roi(1920, 1080) returns (1739, 1919, 814): the
\* third component is the row counted from the top, 1080 - 266.5 rounded.
C25_RoiAtReferenceFromTop ==
    (roi_screen = <<1920, 1080>> /\ roi # <<>>) => roi[1] = <<1739, 1919, 814>>

\* the region was computed for the reference screen
C25_Witness == roi_screen = <<1920, 1080>> /\ roi # <<>> /\ roi[1][3] > 540

\* ------------------------------------------------- frames as MM:SS:FF
\* values the frame count may jump to: before and at 0, the 95 of the
\* example, just before a full minute
FrameJumps == {-2, -1, 0, 95, 1795}

\* the frame count goes up by one
CountFrame ==
    /\ frame_count < MaxFrameCount
    /\ frame_count' = frame_count + 1
    /\ ruler_text' = <<>>
    /\ timeline_text' = <<>>
    /\ UNCHANGED beside_clock

\* the frame count is set anew
JumpToFrame(total_frames) ==
    /\ frame_count' = total_frames
    /\ ruler_text' = <<>>
    /\ timeline_text' = <<>>
    /\ UNCHANGED beside_clock

\* the ruler formats the count
FormatInRuler ==
    /\ ruler_text = <<>>
    /\ ruler_text' = <<format_time_from_frames(frame_count)>>
    /\ UNCHANGED <<frame_count, timeline_text>>
    /\ UNCHANGED beside_clock

\* the timeline tool formats the count
FormatInTimeline ==
    /\ timeline_text = <<>>
    /\ timeline_text' = <<format_frame_time(frame_count)>>
    /\ UNCHANGED <<frame_count, ruler_text>>
    /\ UNCHANGED beside_clock

NextClock ==
    \/ CountFrame
    \/ \E total_frames \in FrameJumps : JumpToFrame(total_frames)
    \/ FormatInRuler
    \/ FormatInTimeline

InitClock == InitWith({}, {NoFile})
SpecClock == InitClock /\ [][NextClock]_vars

\* two decimal digits, as the claim writes MM, SS and FF
TwoDigits(n) == ToString(n \div 10) \o ToString(n % 10)
\* text is MM:SS:FF with FF below 30, SS below 60 and MM*1800 + SS*30 + FF = n
IsClockText(text, n) ==
    \E mm \in 0..(n \div 1800), ss \in 0..59, ff \in 0..29 :
        /\ mm * 1800 + ss * 30 + ff = n
        /\ text = TwoDigits(mm) \o ":" \o TwoDigits(ss) \o ":" \o TwoDigits(ff)

\* C26: for n >= 0 both texts are MM:SS:FF with FF = n mod 30, SS = (n div 30)
\* mod 60 and MM = (n div 30) div 60, so that MM*1800 + SS*30 + FF = n (0
\* gives 00:00:00, 95 gives 00:03:05); for n < 0 the ruler gives 00:00:00 and
\* the timeline tool --:--:--.
C26_ClockText ==
    /\ ruler_text # <<>> =>
          IF frame_count >= 0 THEN IsClockText(ruler_text[1], frame_count)
          ELSE ruler_text[1] = "00:00:00"
    /\ timeline_text # <<>> =>
          IF frame_count >= 0 THEN IsClockText(timeline_text[1], frame_count)
          ELSE timeline_text[1] = "--:--:--"
    /\ (frame_count = 0 /\ ruler_text # <<>>) => ruler_text[1] = "00:00:00"
    /\ (frame_count = 95 /\ timeline_text # <<>>) => timeline_text[1] = "00:03:05"

\* both texts were made for a count past the first minute
C26_Witness ==
    /\ frame_count = 1805
    /\ ruler_text = <<"01:00:05">>
    /\ timeline_text = <<"01:00:05">>

\* ------------------------------------------ MuMu and LDPlayer handles
\* how connect() may end. no_library: an exception before the DLL is asked
\* for a handle; no_handle: nemu_connect returns 0 / CreateScreenShotInstance
\* NULL; no_size: nemu_capture_display fails after the handle was stored
ConnectOutcomes(kind) ==
    IF kind = "mumu" THEN {"no_library", "no_handle", "no_size", "ok"}
    ELSE {"no_library", "no_handle", "ok"}

\* a controller object is constructed
NewController(kind) ==
    /\ ctl_handle = 0
    /\ with_state # "inside"
    /\ ctl_kind' = kind
    /\ with_state' = "outside"
    /\ last_capture' = "none"
    /\ UNCHANGED <<ctl_handle, handle_releases>>
    /\ UNCHANGED beside_handles

\* the body of connect(): self.handle is assigned whatever the DLL returned
Connecting(outcome) ==
    /\ outcome \in ConnectOutcomes(ctl_kind)
    /\ Len(handle_releases) < MaxHandles
    /\ IF outcome = "no_library" THEN UNCHANGED <<ctl_handle, handle_releases>>
       ELSE IF outcome = "no_handle"
       THEN ctl_handle' = 0 /\ UNCHANGED handle_releases
       ELSE /\ handle_releases' = Append(handle_releases, 0)
            /\ ctl_handle' = Len(handle_releases) + 1

\* the body of disconnect(): release the handle held, if any, and forget it
Disconnecting ==
    IF ctl_handle # 0
    THEN /\ handle_releases' = [handle_releases EXCEPT ![ctl_handle] = @ + 1]
         /\ ctl_handle' = 0
    ELSE UNCHANGED <<ctl_handle, handle_releases>>

\* controller.connect()
Connect(outcome) ==
    /\ with_state # "inside"
    /\ Connecting(outcome)
    /\ with_state' = "outside"
    /\ UNCHANGED <<ctl_kind, last_capture>>
    /\ UNCHANGED beside_handles

\* controller.capture_frame()
CaptureFrame(capture_ok) ==
    /\ last_capture' = IF ctl_handle = 0 THEN "not_connected"
                       ELSE IF capture_ok THEN "frame" ELSE "failed"
    /\ last_capture' # last_capture
    /\ UNCHANGED <<ctl_kind, ctl_handle, handle_releases, with_state>>
    /\ UNCHANGED beside_handles

\* controller.disconnect()
Disconnect ==
    /\ with_state # "inside"
    /\ Disconnecting
    /\ with_state' = "outside"
    /\ UNCHANGED <<ctl_kind, last_capture>>
    /\ UNCHANGED beside_handles

\* with controller: __enter__ is connect(); when it raises the block is left
\* at once and __exit__ is not called
WithEnter(outcome) ==
    /\ with_state # "inside"
    /\ Connecting(outcome)
    /\ with_state' = IF outcome = "ok" THEN "inside" ELSE "left"
    /\ UNCHANGED <<ctl_kind, last_capture>>
    /\ UNCHANGED beside_handles

\* the with block ends, normally or by an exception: __exit__ is disconnect()
WithExit ==
    /\ with_state = "inside"
    /\ Disconnecting
    /\ with_state' = "left"
    /\ UNCHANGED <<ctl_kind, last_capture>>
    /\ UNCHANGED beside_handles

NextHandles ==
    \/ \E kind \in {"mumu", "ldplayer"} : NewController(kind)
    \/ \E outcome \in {"no_library", "no_handle", "no_size", "ok"} : Connect(outcome)
    \/ \E capture_ok \in BOOLEAN : CaptureFrame(capture_ok)
    \/ Disconnect
    \/ \E outcome \in {"no_library", "no_handle", "no_size", "ok"} : WithEnter(outcome)
    \/ WithExit

InitHandles == InitWith({}, {NoFile})
SpecHandles == InitHandles /\ [][NextHandles]_vars

\* C27: over any sequence of connect, capture_frame, disconnect and with
\* blocks, also when connect fails after the handle was obtained, every
\* handle the DLL gave out is passed to nemu_disconnect / release exactly
\* once: never twice, once as soon as the controller no longer holds it, and
\* once when a with statement has been left.
C27_HandleReleasedOnce ==
    \A h \in 1..Len(handle_releases) :
        /\ handle_releases[h] <= 1
        /\ h # ctl_handle => handle_releases[h] = 1
        /\ with_state = "left" => handle_releases[h] = 1

\* ------------------------------------------------ the Minicap stream
\* struct.pack('<I', n) and struct.unpack('<I', data)[0]
pack_uint32(n) == <<n % 256, (n \div 256) % 256, (n \div 65536) % 256, n \div 16777216>>
unpack_uint32(data) == data[1] + 256 * data[2] + 65536 * data[3] + 16777216 * data[4]

\* the sizes of the JPEG frames the server sends, each byte of a frame is 1
FrameSizes == {1, 2, 3}
FrameBytes(size) == pack_uint32(size) \o [i \in 1..size |-> 1]

\* the bytes not consumed yet
Unread == Len(mc_sent) - mc_offset
\* what a recv(bufsize) may return: any positive number of the unread bytes
\* up to bufsize; nothing once the stream is closed and read to its end
RecvLengths(bufsize) ==
    IF Unread > 0 THEN 1..(IF bufsize < Unread THEN bufsize ELSE Unread)
    ELSE IF mc_closed THEN {0}
    ELSE {}

\* connect(): the socket is opened and the banner read; a failure ends in
\* disconnect()
MinicapConnect(connect_ok) ==
    /\ mc_pc = "idle"
    /\ ~mc_connected
    /\ mc_connected' = connect_ok
    /\ mc_sent' = <<>>
    /\ mc_closed' = FALSE
    /\ mc_boundaries' = {0}
    /\ mc_offset' = 0
    /\ mc_call_start' = 0
    /\ mc_result' = "none"
    /\ UNCHANGED <<mc_pc, mc_frame_size, mc_bytes_left>>
    /\ UNCHANGED beside_minicap

\* disconnect()
MinicapDisconnect ==
    /\ mc_pc = "idle"
    /\ mc_connected
    /\ mc_connected' = FALSE
    /\ UNCHANGED <<mc_sent, mc_closed, mc_boundaries, mc_offset, mc_pc, mc_call_start,
                   mc_frame_size, mc_bytes_left, mc_result>>
    /\ UNCHANGED beside_minicap

\* the server writes one frame, or the first bytes of one and then closes
ServerSends(size, bytes) ==
    /\ mc_connected
    /\ ~mc_closed
    /\ Len(mc_sent) + 4 + size <= MaxStreamBytes
    /\ bytes \in 0..(4 + size)
    /\ mc_sent' = mc_sent \o SubSeq(FrameBytes(size), 1, bytes)
    /\ mc_closed' = (bytes < 4 + size)
    /\ mc_boundaries' = IF bytes = 4 + size
                        THEN mc_boundaries \cup {Len(mc_sent) + 4 + size}
                        ELSE mc_boundaries
    /\ UNCHANGED <<mc_connected, mc_offset, mc_pc, mc_call_start, mc_frame_size,
                   mc_bytes_left, mc_result>>
    /\ UNCHANGED beside_minicap

\* capture_frame() up to and including frame_size_data = recv(4); got is
\* the number of bytes that recv returned
CaptureFrameStart(got) ==
    /\ mc_pc = "idle"
    /\ mc_call_start' = mc_offset
    /\ IF ~mc_connected
       THEN /\ got = 0
            /\ mc_result' = "ConnectionError"
            /\ UNCHANGED <<mc_offset, mc_pc, mc_frame_size, mc_bytes_left>>
       ELSE /\ got \in RecvLengths(4)
            /\ mc_offset' = mc_offset + got
            /\ IF got < 4
               THEN /\ mc_result' = "ConnectionError"
                    /\ UNCHANGED <<mc_pc, mc_frame_size, mc_bytes_left>>
               ELSE LET frame_size ==
                            unpack_uint32(SubSeq(mc_sent, mc_offset + 1, mc_offset + 4))
                    IN /\ mc_frame_size' = frame_size
                       /\ mc_bytes_left' = frame_size
                       /\ mc_pc' = "body"
                       /\ mc_result' = "none"
    /\ UNCHANGED <<mc_connected, mc_sent, mc_closed, mc_boundaries>>
    /\ UNCHANGED beside_minicap

\* one round of the loop: chunk = recv(bytes_left)
CaptureFrameRecv(got) ==
    /\ mc_pc = "body"
    /\ got \in RecvLengths(mc_bytes_left)
    /\ mc_offset' = mc_offset + got
    /\ IF got = 0
       THEN /\ mc_result' = "ConnectionError"
            /\ mc_pc' = "idle"
            /\ UNCHANGED mc_bytes_left
       ELSE /\ mc_bytes_left' = mc_bytes_left - got
            /\ mc_pc' = IF mc_bytes_left' > 0 THEN "body" ELSE "idle"
            /\ mc_result' = IF mc_bytes_left' > 0 THEN "none" ELSE "frame"
    /\ UNCHANGED <<mc_connected, mc_sent, mc_closed, mc_boundaries, mc_call_start,
                   mc_frame_size>>
    /\ UNCHANGED beside_minicap

NextMinicap ==
    \/ \E connect_ok \in BOOLEAN : MinicapConnect(connect_ok)
    \/ MinicapDisconnect
    \/ \E size \in FrameSizes, bytes \in 0..7 : ServerSends(size, bytes)
    \/ \E got \in 0..4 : CaptureFrameStart(got)
    \/ \E got \in 0..3 : CaptureFrameRecv(got)

InitMinicap == InitWith({}, {NoFile})
SpecMinicap == InitMinicap /\ [][NextMinicap]_vars

\* the frame that begins where the present call began has arrived whole
FrameArrived ==
    /\ Len(mc_sent) - mc_call_start >= 4
    /\ Len(mc_sent) - mc_call_start >=
          4 + unpack_uint32(SubSeq(mc_sent, mc_call_start + 1, mc_call_start + 4))
\* a step in which capture_frame of a connected controller raises ConnectionError
CaptureFailsStep ==
    /\ mc_connected
    /\ mc_result' = "ConnectionError"
    /\ <<mc_offset, mc_result, mc_call_start, mc_pc>>' # <<mc_offset, mc_result, mc_call_start, mc_pc>>

\* C28: a capture_frame that returns a frame has consumed exactly 4 +
\* frame_size bytes however the bytes arrived in chunks, and a reader that
\* began at a frame boundary is at one again; a capture_frame fails with a
\* connection failure only when the controller is not connected or the stream
\* was closed before the frame was complete.
C28_FrameConsumedWhole ==
    /\ [](mc_result = "frame" =>
             /\ mc_offset - mc_call_start = 4 + mc_frame_size
             /\ mc_call_start \in mc_boundaries => mc_offset \in mc_boundaries)
    /\ [][CaptureFailsStep => (mc_closed /\ ~FrameArrived')]_vars

\* -------------------------------------------- commands in the capture loop
\* occurrences of the command in the queue
InQueue(cmd, queue) == Cardinality({i \in 1..Len(queue) : queue[i] = cmd})
\* the worker, inside the capture loop, takes the command at the head
LoopTakes ==
    /\ InLoop
    /\ command_queue # <<>>
    /\ command_queue' # command_queue
    /\ Len(command_queue') <= Len(command_queue)

C30_LoopNeverBlocks ==
    (pc = "inner" /\ outbox # <<>> /\ Head(outbox).m.type = "mode_changed")
        => Len(ui_queue) < UI_QUEUE_MAXSIZE

\* -------------------------------------------- the loop after a file command
\* the worker waits in command_queue.get() with nothing left to do
WorkerIdle ==
    /\ pc = "outer"
    /\ outbox = <<>>
    /\ command_queue = <<>>
\* the last state_change the worker sent has reached the overlay and is "running"
ShownRunning ==
    /\ ui_state = "running"
    /\ \A i \in 1..Len(ui_queue) : ui_queue[i].type # "state_change"

\* C31: after a delete_profile or rename_profile for another file than the
\* running profile the worker returns to the capture loop without a further
\* command; whenever the last state_change sent is "running" and the worker is
\* alive, it is in the capture loop or on its way back to it, never waiting
\* for a command.
C31_RunningMeansInLoop == ShownRunning => ~WorkerIdle

\* ------------------------------------------------ the order of commands
\* SpecOrder: the user clicks twice in a row while a profile runs
OrderCommands == {"use_profile", "delete_profile", "prepare_calibration"}

NextOrder ==
    \/ WorkerStart("mumu", Outcome("ok", ""))
    \/ WorkerPut
    \/ HandlePrepareCalibration
    \/ HandleDeleteProfile
    \/ HandleUseProfile
    \/ InnerCommand
    \/ InnerTick(0, 0)
    \/ UiPoll
    \/ \E cmd \in {c \in UserCommands : c.type \in OrderCommands} :
          UiCommandUpTo(cmd, MaxPending)
    \/ ApiPoll

InitOrder == InitWith({FA, FB}, {FA})
SpecOrder == InitOrder /\ [][NextOrder]_vars

\* the place of the command in the queue
PlaceIn(cmd, queue) == CHOOSE i \in 1..Len(queue) : queue[i] = cmd

\* C32: non-minor commands are handled in the order they were put on the
\* queue: the outer loop takes commands from the head only, so of two
\* different waiting commands the one put first stays in front of the other
\* for as long as both wait, also while the capture loop runs.
C32_OrderKept ==
    [][\A i \in 1..Len(command_queue) : \A j \in (i + 1)..Len(command_queue) :
          (/\ command_queue[i].type \notin MINOR_COMMANDS
           /\ command_queue[j].type \notin MINOR_COMMANDS
           /\ InQueue(command_queue[i], command_queue) = 1
           /\ InQueue(command_queue[j], command_queue) = 1
           /\ InQueue(command_queue[i], command_queue') = 1
           /\ InQueue(command_queue[j], command_queue') = 1)
          => PlaceIn(command_queue[i], command_queue')
                 < PlaceIn(command_queue[j], command_queue')]_vars

\* C33: after rename_profile has been handled for an existing, loadable file
\* the calibration directory holds a file with the same profiles, also when
\* the new name gives the same filename and when the write fails.
C33_RenameKeepsProfile ==
    [][(/\ HandledStep("rename_profile")
        /\ load_calibration_by_filename(store, Head(command_queue).filename) # NoData)
       => \E f \in DOMAIN store' :
             load_calibration_by_filename(store', f)
                 = load_calibration_by_filename(store, Head(command_queue).filename)]_vars

\* ------------------------------------------------------- the UI queue
\* SpecQueue: every kind of message the worker puts on the UI queue, with an
\* overlay that keeps polling (root.after(50, _process_ui_queue)) and a worker
\* thread that runs whenever its put can go on
QueueCommands == {"prepare_calibration", "start_calibration", "use_profile",
                  "set_display_mode"}

NextQueue ==
    \/ \E outcome \in StartOutcomes("mumu") : WorkerStart("mumu", outcome)
    \/ WorkerPut
    \/ WorkerFinally
    \/ HandlePrepareCalibration
    \/ HandleStartCalibration("", SamplesFull, 0, TRUE)
    \/ HandleUseProfile
    \/ InnerCommand
    \/ InnerTick(0, 0)
    \/ UiPoll
    \/ \E cmd \in {c \in UserCommands : c.type \in QueueCommands} : UiCommand(cmd)

InitQueue == InitWith({FA}, {FA})
SpecQueue ==
    InitQueue /\ [][NextQueue]_vars /\ WF_vars(UiPoll) /\ WF_vars(WorkerPut)

\* a put the worker is blocked in
PutPending == outbox # <<>>
\* the UI queue changes only by the overlay taking its head or by a message
\* going on behind the ones already there, within the capacity
QueueStep ==
    \/ ui_queue # <<>> /\ ui_queue' = Tail(ui_queue)
    \/ /\ Len(ui_queue) < UI_QUEUE_MAXSIZE
       /\ Len(ui_queue') = Len(ui_queue) + 1
       /\ SubSeq(ui_queue', 1, Len(ui_queue)) = ui_queue
\* a blocked put is left only by completing: its message goes on the queue's end
PutStep ==
    /\ outbox' = Tail(outbox)
    /\ Head(outbox).q = "ui" => ui_queue' = Append(ui_queue, Head(outbox).m)
    /\ Head(outbox).q = "cmd" => command_queue' = Append(command_queue, Head(outbox).m)

\* C34: with an overlay that keeps polling, every blocking put of the worker
\* completes; the message of a completed put goes on the end of the UI queue,
\* and the queue loses a message only by the overlay taking its head, so each
\* message other than an update that finds the queue full is delivered once
\* and in the order sent.
C34_PutsComplete ==
    /\ PutPending ~> ~PutPending
    /\ [][(PutPending /\ outbox' # outbox) => PutStep]_vars
    /\ [][ui_queue' # ui_queue => QueueStep]_vars
\* the worker is blocked in a put of a message other than update while the
\* queue holds an update
C34_Witness ==
    /\ PutPending /\ Head(outbox).q = "ui" /\ Head(outbox).m.type = "mode_changed"
    /\ ui_queue # <<>> /\ Head(ui_queue).type = "update"

\* ------------------------------------------------ app.py: the flash loop
FLASH_INTERVAL == 250
QUEUE_POLL_INTERVAL == 16
DARK == "#282c34"
ALERT == "#ff6347"
\* time_to_next as _update_display passes it: -1 without an alert, else frames
FlashDistances == {-1, 1}

\* _flash_loop, lines 549-569: the style and the callbacks pending after it
FlashLoopBackground(flashing, background) ==
    IF ~ flashing THEN DARK
    ELSE IF background = DARK THEN ALERT ELSE DARK
FlashLoopTimers(flashing, pending) ==
    IF flashing THEN Append(pending, FLASH_INTERVAL) ELSE pending

\* one poll of _process_ws_queue, 16 ms after the last: _update_display calls
\* _handle_alerts, which starts a flash loop when the flag goes up
FlasherTick(time_to_next) ==
    /\ \A i \in 1..Len(fl_timers) : fl_timers[i] > 0
    /\ LET should == should_be_flashing(time_to_next)
           waiting == [i \in 1..Len(fl_timers) |-> fl_timers[i] - QUEUE_POLL_INTERVAL]
       IN /\ fl_flashing' = Flashing(should, fl_flashing)
          /\ IF should /\ ~ fl_flashing
             THEN /\ Len(fl_timers) < MaxTimers
                  /\ fl_timers' = FlashLoopTimers(TRUE, waiting)
                  /\ fl_background' = FlashLoopBackground(TRUE, fl_background)
             ELSE /\ fl_timers' = waiting
                  /\ UNCHANGED fl_background
    /\ UNCHANGED beside_flasher

\* a radio button writes mode: _update_ui_for_mode, lines 179-181
FlasherSetMode ==
    /\ fl_flashing
    /\ fl_flashing' = FALSE
    /\ UNCHANGED <<fl_timers, fl_background>>
    /\ UNCHANGED beside_flasher

\* a pending callback comes due and runs _flash_loop
FlashTimer ==
    /\ fl_timers # <<>>
    /\ Head(fl_timers) <= 0
    /\ fl_timers' = FlashLoopTimers(fl_flashing, Tail(fl_timers))
    /\ fl_background' = FlashLoopBackground(fl_flashing, fl_background)
    /\ UNCHANGED fl_flashing
    /\ UNCHANGED beside_flasher

NextFlasher ==
    \/ \E time_to_next \in FlashDistances : FlasherTick(time_to_next)
    \/ FlasherSetMode
    \/ FlashTimer

InitFlasher == InitWith({}, {NoFile})
SpecFlasher == InitFlasher /\ [][NextFlasher]_vars

\* C35: at any time at most one _flash_loop callback is pending, also when
\* the flashing stops and starts again within 250 ms.
C35_OneFlashLoop == Len(fl_timers) <= 1

\* ------------------------------------- overlay_window.py: deleting a profile
\* what Messagebox.yesno can return; "None" stands for the closed dialog
DialogAnswers == {"Yes", "No", "None"}
\* bool(s) of a string
Truthy(s) == s # ""
\* the second operand of the "or" of line 373, a string of two characters
CONFIRM_LABEL == "queren"
\* the condition of line 373 as written: (result == "Yes") or <the label>
DeleteConfirmed(answer) == (answer = "Yes") \/ Truthy(CONFIRM_LABEL)

\* the tray menu entry: _delete_profile schedules _show_delete_dialog, which
\* opens the dialog
ShowDeleteDialog(filename) ==
    /\ dialog_file = NoFile
    /\ filename \in menu_files
    /\ dialog_file' = filename
    /\ UNCHANGED dialog_answer
    /\ UNCHANGED beside_dialog

\* the user answers or closes the dialog: lines 372-377
AnswerDeleteDialog(answer) ==
    /\ dialog_file # NoFile
    /\ dialog_file' = NoFile
    /\ dialog_answer' = answer
    /\ IF DeleteConfirmed(answer)
       THEN /\ Len(command_queue) < MaxCmds
            /\ command_queue' = Append(command_queue, Cmd("delete_profile", dialog_file, <<>>, ""))
       ELSE UNCHANGED command_queue
    /\ UNCHANGED <<pc, outbox, resource, config, store, now, frame_display_mode,
                   profile, timers, ui_queue, api_queue, gui>>
    /\ UNCHANGED <<api, ws, timeline, wizard, lookup, modelling, table, files,
                   geometry, clock, handles, minicap, flasher, collect>>

\* SpecDialog: two stored profiles, one running; the user deletes through the
\* dialog and switches profiles
NextDialog ==
    \/ WorkerStart("mumu", Outcome("ok", ""))
    \/ WorkerPut
    \/ HandleDeleteProfile
    \/ HandleUseProfile
    \/ InnerCommand
    \/ InnerTick(0, 0)
    \/ UiPoll
    \/ \E cmd \in {c \in UserCommands : c.type = "use_profile"} : UiCommand(cmd)
    \/ \E filename \in {FA, FB} : ShowDeleteDialog(filename)
    \/ \E answer \in DialogAnswers : AnswerDeleteDialog(answer)

InitDialog == InitWith({FA, FB}, {FA})
SpecDialog == InitDialog /\ [][NextDialog]_vars

\* the step in which the delete dialog returns
DialogReturns == dialog_file # NoFile /\ dialog_file' = NoFile

\* C36: when the delete dialog returns anything but Yes, no command is put on
\* the command queue and the store and the worker stay as they are.
C36_DeleteOnlyOnYes ==
    [][(DialogReturns /\ dialog_answer' # "Yes")
          => /\ command_queue' = command_queue
             /\ store' = store
             /\ pc' = pc]_vars

\* ------------------------------- calibration_manager.py: collecting cycles
\* roi[1] - roi[0] of the frames; the bar shows empty, half and full
TOTAL_BAR_WIDTH == 20
\* what one pass of the loop gets: a width, None from the detection, or an
\* exception from capture_frame
CaptureOutcomes == {"width", "none", "error"}

\* lines 222-223: the bar was above 90 % and is below 10 %
ResetSeen(previous, current) ==
    /\ previous # NoReading
    /\ TOTAL_BAR_WIDTH > 0
    /\ 10 * previous > 9 * TOTAL_BAR_WIDTH
    /\ 10 * current < TOTAL_BAR_WIDTH

\* the game draws its next frame: the bar grows, and starts over when full
BarCycleNext == IF bar_fill = TOTAL_BAR_WIDTH THEN bar_cycle + 1 ELSE bar_cycle
BarFillNext == IF bar_fill = TOTAL_BAR_WIDTH THEN 0 ELSE bar_fill + TOTAL_BAR_WIDTH \div 2

\* one pass of the while loop of calibrate, lines 193-238, on the next frame
CollectPass(outcome) ==
    /\ Len(collected) < MaxCycles
    /\ BarCycleNext < MaxBarCycles
    /\ bar_cycle' = BarCycleNext
    /\ bar_fill' = BarFillNext
    /\ IF outcome # "width"
       THEN /\ previous_cost_state_raw' = NoReading
            /\ UNCHANGED <<collected, current_cycle_data, is_collecting_cycle>>
       ELSE LET current_cost_state_raw == bar_fill'
                reset == ResetSeen(previous_cost_state_raw, current_cost_state_raw)
                closes == reset /\ current_cycle_data # <<>>
                kept == IF closes THEN <<>> ELSE current_cycle_data
            IN /\ is_collecting_cycle' = (is_collecting_cycle \/ reset)
               /\ collected' = IF closes THEN Append(collected, current_cycle_data)
                               ELSE collected
               /\ current_cycle_data' =
                     IF is_collecting_cycle'
                     THEN Append(kept, [raw |-> current_cost_state_raw, cycle |-> bar_cycle'])
                     ELSE kept
               /\ previous_cost_state_raw' = current_cost_state_raw
    /\ UNCHANGED beside_collect

NextCollect == \E outcome \in CaptureOutcomes : CollectPass(outcome)

InitCollect == InitWith({}, {NoFile})
SpecCollect == InitCollect /\ [][NextCollect]_vars

\* C37: every cycle sample collected holds readings of one cycle of the bar
\* only, and all of them are readings taken after a reset.
C37_OneCyclePerSample ==
    \A i \in 1..Len(collected) :
        \A j, k \in 1..Len(collected[i]) : collected[i][j].cycle = collected[i][k].cycle

\* SpecNodes: an empty document, cursor moves and add-or-remove presses only.
\* The cursor is moved by the live game frame, which the magnet follows.
CursorFrames == {0, 2, 4}
NextNodes ==
    \/ WsConnected
    \/ \E frame \in CursorFrames :
          WsMessage([isRunning |-> TRUE, totalElapsedFrames |-> frame], TRUE)
    \/ TlTick
    \/ MagnetToggle
    \/ AddOrRemoveNode

InitNodes == InitWith({}, {NoFile})
SpecNodes == InitNodes /\ [][NextNodes]_vars

\* the step of one add-or-remove press
PressStep == edits' = edits + 1
\* the nodes within the tolerance of the cursor
NearCursor ==
    {i \in 1..Len(timeline_data) :
        Abs(timeline_data[i].frame - get_current_display_frame) <= NODE_FIND_TOLERANCE}
\* node i is gone and the others stand as they stood
RemovedAt(i) ==
    /\ Len(timeline_data') = Len(timeline_data) - 1
    /\ \A k \in 1..Len(timeline_data') :
          timeline_data'[k] = timeline_data[IF k < i THEN k ELSE k + 1]

MagnetButtonStep ==
    /\ tool_mode = "editing" /\ tool_mode' = "editing"
    /\ magnet_mode' # magnet_mode
    /\ timeline_drag_data' = timeline_drag_data

\* C39 (as claimed): when the magnet button switches the magnet from off to
\* on, timeline_offset becomes the live game frame.
C39_OffsetSetOnMagnetOn ==
    [][(MagnetButtonStep /\ ~ magnet_mode)
          => timeline_offset' = current_game_frame * 100]_vars

\* C39 (amended): when the magnet button switches the magnet from on to off,
\* timeline_offset becomes the live game frame; switching it from off to on
\* leaves timeline_offset as it is.
C39_OffsetSetOnMagnetOff ==
    [][MagnetButtonStep
          => IF magnet_mode THEN timeline_offset' = current_game_frame * 100
             ELSE timeline_offset' = timeline_offset]_vars
\* the magnet was switched off at a live frame other than 0
C39_Witness ==
    /\ tool_mode = "editing"
    /\ ~ magnet_mode
    /\ current_game_frame # 0
    /\ timeline_offset = current_game_frame * 100

\* "_".join(parts): the basename whose parts between underscores are these
RECURSIVE BasenameText(_)
BasenameText(parts) ==
    IF parts = <<>> THEN ""
    ELSE IF Len(parts) = 1 THEN parts[1]
    ELSE parts[1] \o "_" \o BasenameText(Tail(parts))

\* C40: the name a calibration is saved under gives back, through
\* get_calibration_basename, the basename it was saved with.
C40_BasenameRoundTrip ==
    [][CalibrationSavedStep =>
          get_calibration_basename(SavedFilename) = BasenameText(SavedFilename.base)]_vars
====
